---------------------------- MODULE Spec2Model ----------------------------
(***************************************************************************)
(* Model of four assimp format readers: the STL reader (STLLoader.cpp),    *)
(* the AC3D reader (ACLoader.cpp), the SMD reader (SMDLoader.cpp) and the  *)
(* LightWave scene reader (LWSLoader.cpp).  Every reader has its own       *)
(* variables and its own specification (SpecSTL, SpecAC, SpecSMD,          *)
(* SpecLWS); the variables of the other readers stay at their initial      *)
(* values.                                                                 *)
(***************************************************************************)
EXTENDS Integers, Sequences, FiniteSets, TLC

(***************************************************************************)
(* 32-bit unsigned arithmetic.  A uint32_t is held as two 16-bit limbs     *)
(* <<hi, lo>>, so that 2^32 never has to be written as one number.  A      *)
(* size_t / unsigned long long is held the same way with an unbounded high *)
(* limb (the models never come near 2^64).                                 *)
(***************************************************************************)
Limb == 256 * 256

U32(n) == <<(n \div Limb) % Limb, n % Limb>>

U32Add(a, b) ==
    LET lo == a[2] + b[2]
    IN  <<(a[1] + b[1] + (lo \div Limb)) % Limb, lo % Limb>>

U32Neg(a) == U32Add(<<(Limb - 1) - a[1], (Limb - 1) - a[2]>>, U32(1))

U32Sub(a, b) == U32Add(a, U32Neg(b))

\* a * k for a small factor k (k < 2^15), modulo 2^32
U32Mul(a, k) ==
    LET lo == a[2] * k
    IN  <<(a[1] * k + (lo \div Limb)) % Limb, lo % Limb>>

U32Less(a, b) == a[1] < b[1] \/ (a[1] = b[1] /\ a[2] < b[2])

U32IsZero(a) == a = <<0, 0>>

\* the value of a uint32 below 2^31 as a number
U32Val(a) == a[1] * Limb + a[2]

\* 64-bit values: the same limbs, the high limb not reduced
SizeOf(n) == <<n \div Limb, n % Limb>>

SizeMul(a, k) ==
    LET lo == a[2] * k
    IN  <<a[1] * k + (lo \div Limb), lo % Limb>>

SizeAdd(a, b) ==
    LET lo == a[2] + b[2]
    IN  <<a[1] + b[1] + (lo \div Limb), lo % Limb>>

SizeLess(a, b) == a[1] < b[1] \/ (a[1] = b[1] /\ a[2] < b[2])

(***************************************************************************)
(* Bounds of the models.                                                   *)
(***************************************************************************)
MaxFaces == 3

(***************************************************************************)
(*                              STL reader                                 *)
(***************************************************************************)
HeaderSize == 84
FacetSize == 50
BufferSize == 500

VARIABLES
    stl_pc,       \* position in STLImporter::InternReadFile
    stl_buf,      \* the file: size, face count at offset 80, what the text checks see, facet normals
    stl_scene,    \* the aiScene handed in by the caller
    stl_mesh,     \* the aiMesh of LoadBinaryFile
    stl_i,        \* loop counter of the facet loop
    stl_err       \* message of the DeadlyImportError raised, "" if none

stlVars == <<stl_pc, stl_buf, stl_scene, stl_mesh, stl_i, stl_err>>

NormalIds == {0, 1}

\* the smallest face count whose 50 * n + 84 no longer fits 32 bits:
\* 50 * 85899346 + 84 = 2^32 + 88
WrapFaceCount == 1310 * Limb + 47186

STLFaceCounts == {U32(k) : k \in 0 .. MaxFaces + 1} \cup {U32(WrapFaceCount)}

STLFileSizes ==
    {SizeOf(HeaderSize + FacetSize * k) : k \in 0 .. MaxFaces}
        \cup {SizeOf(HeaderSize - 1), SizeOf(HeaderSize + 4), SizeOf(BufferSize + 100),
              <<Limb, HeaderSize + 4>>}

\* the number of complete facet records the model keeps the content of
STLRecords(size) ==
    IF size[1] = 0 /\ size[2] >= HeaderSize
    THEN IF (size[2] - HeaderSize) \div FacetSize > MaxFaces THEN MaxFaces
         ELSE (size[2] - HeaderSize) \div FacetSize
    ELSE 0

STLBuffers ==
    {[size |-> s, faceCount |-> c, solid |-> so, nonAscii |-> na, normal |-> nr] :
        s \in STLFileSizes, c \in STLFaceCounts, so \in BOOLEAN, na \in BOOLEAN,
        nr \in [0 .. MaxFaces - 1 -> NormalIds]}

STLWellFormedBuffer(b) ==
    /\ \A k \in 0 .. MaxFaces - 1 : k >= STLRecords(b.size) => b.normal[k] = 0
    /\ (b.nonAscii => b.solid)

EmptyScene == [mRootNode |-> FALSE, rootName |-> "", rootChildren |-> <<>>,
               mNumMeshes |-> 0, mNumMaterials |-> 0]

EmptyMesh == [mNumFaces |-> U32(0), mNumVertices |-> U32(0), mNormals |-> <<>>,
              mVertices |-> <<>>, mFaces |-> <<>>, allocated |-> FALSE]

STLInit ==
    /\ stl_pc = "start"
    /\ stl_buf \in {b \in STLBuffers : STLWellFormedBuffer(b)}
    /\ stl_scene = EmptyScene
    /\ stl_mesh = EmptyMesh
    /\ stl_i = 0
    /\ stl_err = ""

STLIdle ==
    /\ stl_pc = "idle"
    /\ stl_buf = [size |-> SizeOf(0), faceCount |-> U32(0), solid |-> FALSE,
                  nonAscii |-> FALSE, normal |-> [k \in 0 .. MaxFaces - 1 |-> 0]]
    /\ stl_scene = EmptyScene
    /\ stl_mesh = EmptyMesh
    /\ stl_i = 0
    /\ stl_err = ""

\* expectedBinaryFileSize: uint32_t arithmetic
ExpectedBinaryFileSize(faceCount) == U32Add(U32Mul(faceCount, FacetSize), U32(HeaderSize))

IsBinarySTL(b) ==
    IF SizeLess(b.size, SizeOf(HeaderSize)) THEN FALSE
    ELSE ExpectedBinaryFileSize(b.faceCount) = b.size

\* b.solid: after leading spaces the buffer holds "solid" and more than five
\* characters; b.nonAscii: one of the first BufferSize characters compares
\* greater than UnicodeBoundary
IsAsciiSTL(b) ==
    IF IsBinarySTL(b) THEN FALSE
    ELSE IF ~b.solid THEN FALSE
    ELSE IF ~SizeLess(b.size, SizeOf(BufferSize)) THEN ~b.nonAscii
    ELSE TRUE

\* the same sum taken in 32 bits
RequiredFileSizeBroken(numFaces) == U32Add(U32(HeaderSize), U32Mul(numFaces, FacetSize))

\* 84ull + mNumFaces * 50ull: 64-bit arithmetic
RequiredFileSize(numFaces) == SizeAdd(SizeOf(HeaderSize), SizeMul(numFaces, FacetSize))

STL_InternReadFile ==
    /\ stl_pc = "start"
    /\ stl_scene' = [stl_scene EXCEPT !.mRootNode = TRUE]
    /\ IF IsBinarySTL(stl_buf)
       THEN stl_pc' = "binary" /\ stl_err' = stl_err
       ELSE IF IsAsciiSTL(stl_buf)
       THEN stl_pc' = "ascii" /\ stl_err' = stl_err
       ELSE stl_pc' = "fatal" /\ stl_err' = "Failed to determine STL storage representation"
    /\ UNCHANGED <<stl_buf, stl_mesh, stl_i>>

\* LoadBinaryFile up to the allocation of the vertex and normal arrays
STL_LoadBinaryFile ==
    /\ stl_pc = "binary"
    /\ IF SizeLess(stl_buf.size, SizeOf(HeaderSize))
       THEN /\ stl_scene' = [stl_scene EXCEPT !.mNumMeshes = 1]
            /\ stl_mesh' = stl_mesh
            /\ stl_pc' = "fatal"
            /\ stl_err' = "STL: file is too small for the header"
       ELSE /\ stl_scene' = [stl_scene EXCEPT !.mNumMeshes = 1, !.rootName = "<STL_BINARY>"]
            /\ IF SizeLess(stl_buf.size, RequiredFileSize(stl_buf.faceCount))
               THEN /\ stl_mesh' = [stl_mesh EXCEPT !.mNumFaces = stl_buf.faceCount]
                    /\ stl_pc' = "fatal"
                    /\ stl_err' = "STL: file is too small to hold all facets"
               ELSE IF U32IsZero(stl_buf.faceCount)
               THEN /\ stl_mesh' = [stl_mesh EXCEPT !.mNumFaces = stl_buf.faceCount]
                    /\ stl_pc' = "fatal"
                    /\ stl_err' = "STL: file is empty. There are no facets defined"
               ELSE /\ stl_mesh' = [stl_mesh EXCEPT
                                       !.mNumFaces = stl_buf.faceCount,
                                       !.mNumVertices = U32Mul(stl_buf.faceCount, 3),
                                       !.allocated = TRUE]
                    /\ stl_pc' = "facets"
                    /\ stl_err' = stl_err
    /\ UNCHANGED <<stl_buf, stl_i>>

\* one turn of the facet loop: the facet's normal three times, then its three vertices
STL_ReadFacet ==
    /\ stl_pc = "facets"
    /\ U32Less(U32(stl_i), stl_mesh.mNumFaces)
    /\ stl_i < MaxFaces
    /\ stl_mesh' = [stl_mesh EXCEPT
            !.mNormals = @ \o <<stl_buf.normal[stl_i], stl_buf.normal[stl_i], stl_buf.normal[stl_i]>>,
            !.mVertices = @ \o <<<<stl_i, 1>>, <<stl_i, 2>>, <<stl_i, 3>>>>]
    /\ stl_i' = stl_i + 1
    /\ UNCHANGED <<stl_pc, stl_buf, stl_scene, stl_err>>

\* addFacesToMesh: face i gets the indices p, p + 1, p + 2 of a running counter p
addFacesToMesh(numFaces) == [i \in 1 .. numFaces |-> <<3 * (i - 1), 3 * (i - 1) + 1, 3 * (i - 1) + 2>>]

\* the end of LoadBinaryFile: faces, the single child node with the mesh indices
STL_BinaryFinish ==
    /\ stl_pc = "facets"
    /\ ~U32Less(U32(stl_i), stl_mesh.mNumFaces)
    /\ stl_mesh' = [stl_mesh EXCEPT !.mFaces = addFacesToMesh(U32Val(stl_mesh.mNumFaces))]
    /\ stl_scene' = [stl_scene EXCEPT
            !.rootChildren = <<[mMeshes |-> [i \in 1 .. stl_scene.mNumMeshes |-> i - 1]]>>]
    /\ stl_pc' = "materials"
    /\ UNCHANGED <<stl_buf, stl_i, stl_err>>

\* the tokens of one solid that LoadASCIIFile acts on, up to 'endsolid' or the
\* end of the buffer: "facet normal", "facet" without the word normal, "vertex"
MaxAsciiTokens == 5
AsciiTokens == {"facet normal", "facet", "vertex"}
AsciiSolids == UNION {[1 .. n -> AsciiTokens] : n \in 0 .. MaxAsciiTokens}

\* the inner loop of LoadASCIIFile: positionBuffer, normalBuffer and
\* faceVertexCounter after the tokens from k on.  A position is written as
\* <<facet, corner>> and a normal as the facet it was read from, a facet being
\* named by the place of its line among the tokens.
RECURSIVE ReadSolid(_, _, _)
ReadSolid(toks, k, st) ==
    IF k > Len(toks) THEN st
    ELSE IF toks[k] = "facet normal"
         THEN ReadSolid(toks, k + 1, [st EXCEPT !.faceVertexCounter = 0,
                                                !.facet = k,
                                                !.normalBuffer = @ \o <<k, k, k>>])
    ELSE IF toks[k] = "facet"
         THEN ReadSolid(toks, k + 1, [st EXCEPT !.faceVertexCounter = 0, !.facet = k])
    ELSE IF st.faceVertexCounter >= 3
         THEN ReadSolid(toks, k + 1, st)
    ELSE ReadSolid(toks, k + 1,
             [st EXCEPT !.faceVertexCounter = @ + 1,
                        !.positionBuffer = Append(@, <<st.facet, st.faceVertexCounter + 1>>)])

\* LoadASCIIFile for a buffer with one solid, then the copy into the scene
STL_LoadASCIIFile ==
    /\ stl_pc = "ascii"
    /\ \E toks \in AsciiSolids, named \in BOOLEAN :
         LET st == ReadSolid(toks, 1, [faceVertexCounter |-> 3, facet |-> 0,
                                       positionBuffer |-> <<>>, normalBuffer |-> <<>>])
             name == IF named THEN stl_scene.rootName ELSE "<STL_ASCII>"
         \* an empty position buffer is logged as a warning and passes
         IN  IF Len(st.positionBuffer) % 3 # 0
             THEN /\ stl_pc' = "fatal"
                  /\ stl_err' = "STL: Invalid number of vertices"
                  /\ stl_scene' = [stl_scene EXCEPT !.rootName = name]
                  /\ UNCHANGED stl_mesh
             ELSE IF Len(st.normalBuffer) # Len(st.positionBuffer)
             THEN /\ stl_pc' = "fatal"
                  /\ stl_err' = "Normal buffer size does not match position buffer size"
                  /\ stl_scene' = [stl_scene EXCEPT !.rootName = name]
                  /\ UNCHANGED stl_mesh
             ELSE /\ stl_mesh' = [mNumFaces |-> U32(Len(st.positionBuffer) \div 3),
                                  mNumVertices |-> U32(Len(st.positionBuffer)),
                                  mNormals |-> st.normalBuffer,
                                  mVertices |-> st.positionBuffer,
                                  mFaces |-> addFacesToMesh(Len(st.positionBuffer) \div 3),
                                  allocated |-> st.positionBuffer # <<>>]
                  /\ stl_scene' = [stl_scene EXCEPT !.rootName = name, !.mNumMeshes = 1,
                                       !.rootChildren = <<[mMeshes |-> <<0>>]>>]
                  /\ stl_pc' = "materials"
                  /\ UNCHANGED stl_err
    /\ UNCHANGED <<stl_buf, stl_i>>

\* the default material set up after the loader returned
STL_CreateMaterial ==
    /\ stl_pc = "materials"
    /\ stl_scene' = [stl_scene EXCEPT !.mNumMaterials = 1]
    /\ stl_pc' = "done"
    /\ UNCHANGED <<stl_buf, stl_mesh, stl_i, stl_err>>

STLNext ==
    \/ STL_InternReadFile
    \/ STL_LoadBinaryFile
    \/ STL_ReadFacet
    \/ STL_BinaryFinish
    \/ STL_LoadASCIIFile
    \/ STL_CreateMaterial

(***************************************************************************)
(*                 SMD reader: SMDImporter::CreateOutputMeshes             *)
(*                                                                         *)
(* Weights are fixed-point numbers, Scale units to 1.0.  The model follows *)
(* the vertex loop of one mesh: every vertex of the file carries a parent  *)
(* bone index and a list of bone links, and the loop files the weights     *)
(* into one list per bone (aaiBones).                                      *)
(***************************************************************************)
Scale == 10 * 10 * 10
WeightLimit == (Scale * 39) \div 40     \* 0.975f
UINT_MAX == <<Limb - 1, Limb - 1>>

MaxVerts == 2

VARIABLES
    smd_pc,        \* position in CreateOutputMeshes
    smd_numBones,  \* asBones.size()
    smd_verts,     \* the vertices handled so far: iParentNode and aiBoneLinks of each
    smd_aaiBones,  \* per bone, the list of <<vertex id, weight>> entries
    smd_iNum       \* running vertex index of the mesh

smdVars == <<smd_pc, smd_numBones, smd_verts, smd_aaiBones, smd_iNum>>

SMDBoneCounts == {2}
SMDWeights == {Scale \div 4, (Scale * 49) \div 50}
SMDLinkCounts == {0, 1, 2}

\* bone indices a link can name: the bones and one index past them
SMDLinkBones(numBones) == 0 .. numBones
\* parent bone indices: a bone, one index past the bones, and the
\* unreadable-parent value
SMDParents(numBones) == {U32(0), U32(numBones), UINT_MAX}

SMDLinkLists(numBones) ==
    UNION {[1 .. n -> (SMDLinkBones(numBones) \X SMDWeights)] : n \in SMDLinkCounts}

SMDInit ==
    /\ smd_pc = "verts"
    /\ smd_numBones \in SMDBoneCounts
    /\ smd_verts = <<>>
    /\ smd_aaiBones = [b \in 0 .. smd_numBones - 1 |-> <<>>]
    /\ smd_iNum = 0

SMDIdle ==
    /\ smd_pc = "idle"
    /\ smd_numBones = 0
    /\ smd_verts = <<>>
    /\ smd_aaiBones = <<>>
    /\ smd_iNum = 0

\* a link is taken unless its bone index is out of range or names the parent
LinkAccepted(link, parent, numBones) ==
    ~(link[1] >= numBones \/ U32(link[1]) = parent)

\* the first loop over the links of a vertex: the accepted links are appended
\* to their bones' lists
RECURSIVE PushLinks(_, _, _, _, _)
PushLinks(lists, links, parent, numBones, iNum) ==
    IF links = <<>> THEN lists
    ELSE LET link == Head(links)
             next == IF LinkAccepted(link, parent, numBones)
                     THEN [lists EXCEPT ![link[1]] = Append(@, <<iNum, link[2]>>)]
                     ELSE lists
         IN  PushLinks(next, Tail(links), parent, numBones, iNum)

\* fSum of the first loop
RECURSIVE WeightSum(_, _, _)
WeightSum(links, parent, numBones) ==
    IF links = <<>> THEN 0
    ELSE (IF LinkAccepted(Head(links), parent, numBones) THEN Head(links)[2] ELSE 0)
            + WeightSum(Tail(links), parent, numBones)

\* pairval.second *= 1 / fSum
ScaleWeight(w, fSum) == (w * Scale) \div fSum

\* the normalisation loop: for every link with a bone in range, the LAST
\* entry of that bone's list is multiplied by 1 / fSum
RECURSIVE NormalizeLinks(_, _, _, _)
NormalizeLinks(lists, links, fSum, numBones) ==
    IF links = <<>> THEN lists
    ELSE LET b == Head(links)[1]
             next == IF b >= numBones THEN lists
                     ELSE [lists EXCEPT ![b] =
                              [@ EXCEPT ![Len(@)] = <<@[1], ScaleWeight(@[2], fSum)>>]]
         IN  NormalizeLinks(next, Tail(links), fSum, numBones)

\* 1.0f - fSum, the weight given to the parent bone
ResidualBroken(fSum) == Scale
Residual(fSum) == Scale - fSum

\* one turn of the loop over iVert
SMD_ProcessVertex ==
    /\ smd_pc = "verts"
    /\ smd_iNum < MaxVerts
    /\ \E parent \in SMDParents(smd_numBones), links \in SMDLinkLists(smd_numBones) :
        LET pushed == PushLinks(smd_aaiBones, links, parent, smd_numBones, smd_iNum)
            fSum == WeightSum(links, parent, smd_numBones)
        IN  /\ smd_verts' = Append(smd_verts, [iParentNode |-> parent, aiBoneLinks |-> links])
            /\ smd_aaiBones' =
                 IF fSum < WeightLimit /\ parent # UINT_MAX
                 THEN IF ~U32Less(parent, U32(smd_numBones))
                      THEN IF fSum # 0
                           THEN NormalizeLinks(pushed, links, fSum, smd_numBones)
                           ELSE pushed
                      ELSE [pushed EXCEPT ![U32Val(parent)] =
                               Append(@, <<smd_iNum, Residual(fSum)>>)]
                 ELSE pushed
    /\ smd_iNum' = smd_iNum + 1
    /\ UNCHANGED <<smd_pc, smd_numBones>>

\* the vertex loop is over: the bones of the mesh are built from the lists
SMD_BuildBones ==
    /\ smd_pc = "verts"
    /\ smd_iNum = MaxVerts
    /\ smd_pc' = "bones"
    /\ UNCHANGED <<smd_numBones, smd_verts, smd_aaiBones, smd_iNum>>

SMDNext ==
    \/ SMD_ProcessVertex
    \/ SMD_BuildBones

\* the sum of the weights recorded for vertex v over all bones
RECURSIVE ListWeight(_, _)
ListWeight(list, v) ==
    IF list = <<>> THEN 0
    ELSE (IF Head(list)[1] = v THEN Head(list)[2] ELSE 0) + ListWeight(Tail(list), v)

RECURSIVE RecordedUpTo(_, _)
RecordedUpTo(b, v) ==
    IF b < 0 THEN 0 ELSE ListWeight(smd_aaiBones[b], v) + RecordedUpTo(b - 1, v)

RecordedWeight(v) == RecordedUpTo(smd_numBones - 1, v)

InNoList(v) == \A b \in 0 .. smd_numBones - 1 :
                  \A k \in 1 .. Len(smd_aaiBones[b]) : smd_aaiBones[b][k][1] # v

\* the declared weights of vertex v that lie in range, and their sum
DeclaredSum(v) ==
    WeightSum(smd_verts[v + 1].aiBoneLinks, smd_verts[v + 1].iParentNode, smd_numBones)

ParentValid(v) == U32Less(smd_verts[v + 1].iParentNode, U32(smd_numBones))

(***************************************************************************)
(*               AC3D reader: AC3DImporter::ConvertObjectSection           *)
(*                                                                         *)
(* One object with its surfaces is converted: the counting pass over the   *)
(* surfaces (needMat, node->mNumMeshes), then the loop over the materials  *)
(* that creates one mesh for every material with a face count other than   *)
(* zero, then the tail of InternReadFile.  Counts are uint32.              *)
(***************************************************************************)
MaxSurfaces == 2
MaxRefs == 3

VARIABLES
    ac_pc,        \* position in ConvertObjectSection / InternReadFile
    ac_object,    \* the Object: number of vertices, its surfaces
    ac_numMats,   \* materials.size()
    ac_it,        \* the surface iterator of the counting pass
    ac_needMat,   \* per material <<number of faces, number of vertices>>
    ac_node,      \* the aiNode: mNumMeshes and the filled part of mMeshes
    ac_mat,       \* the material counter of the second loop
    ac_meshes,    \* the meshes created so far
    ac_scene,     \* mNumMeshes of the scene, the node's mMeshes array as the caller sees it
    ac_err        \* message of the DeadlyImportError raised, "" if none

acVars == <<ac_pc, ac_object, ac_numMats, ac_it, ac_needMat, ac_node, ac_mat,
            ac_meshes, ac_scene, ac_err>>

SurfaceTypes == {"Polygon", "ClosedLine", "OpenLine", "TriangleStrip"}

ACSurfaces ==
    [type : SurfaceTypes, doubleSided : BOOLEAN, mat : 0 .. 1, refs : 0 .. MaxRefs]

ACObjects ==
    [numVertices : {0, MaxRefs},
     surfaces : UNION {[1 .. n -> ACSurfaces] : n \in 0 .. MaxSurfaces}]

\* AI_MAX_ALLOC(aiFace), AI_MAX_ALLOC(aiVector3D): 256 MiB over the size of the type
MaxAllocFaces == U32((256 * 1024 * 1024) \div 16)
MaxAllocVertices == U32((256 * 1024 * 1024) \div 12)

\* obj.numRefs: the sum of the reference counts of the surfaces
RECURSIVE NumRefs(_)
NumRefs(surfaces) ==
    IF surfaces = <<>> THEN 0 ELSE Head(surfaces).refs + NumRefs(Tail(surfaces))

ACInit ==
    /\ ac_pc = "convert"
    /\ ac_object \in ACObjects
    /\ ac_numMats = 1
    /\ ac_it = 1
    /\ ac_needMat = [m \in 0 .. ac_numMats - 1 |-> <<U32(0), U32(0)>>]
    /\ ac_node = [mNumMeshes |-> U32(0), mMeshes |-> <<>>]
    /\ ac_mat = 0
    /\ ac_meshes = <<>>
    /\ ac_scene = [mRootNode |-> FALSE, mNumMeshes |-> 0, nodeMeshes |-> <<>>]
    /\ ac_err = ""

ACIdle ==
    /\ ac_pc = "idle"
    /\ ac_object = [numVertices |-> 0, surfaces |-> <<>>]
    /\ ac_numMats = 0
    /\ ac_it = 1
    /\ ac_needMat = <<>>
    /\ ac_node = [mNumMeshes |-> U32(0), mMeshes |-> <<>>]
    /\ ac_mat = 0
    /\ ac_meshes = <<>>
    /\ ac_scene = [mRootNode |-> FALSE, mNumMeshes |-> 0, nodeMeshes |-> <<>>]
    /\ ac_err = ""

\* the entry of ConvertObjectSection: no vertices, a point list, or the counting pass
AC_ConvertObjectSection ==
    /\ ac_pc = "convert"
    /\ IF ac_object.numVertices = 0
       THEN /\ ac_pc' = "finish"
            /\ UNCHANGED <<ac_meshes, ac_node>>
       ELSE IF Len(ac_object.surfaces) = 0 \/ NumRefs(ac_object.surfaces) = 0
       THEN /\ ac_meshes' = Append(ac_meshes,
                   [mNumFaces |-> U32(ac_object.numVertices),
                    mNumVertices |-> U32(ac_object.numVertices),
                    mMaterialIndex |-> 0, surfaces |-> {},
                    facesWritten |-> ac_object.numVertices,
                    verticesWritten |-> ac_object.numVertices])
            /\ ac_pc' = "finish"
            /\ UNCHANGED ac_node
       ELSE /\ ac_pc' = "count"
            /\ UNCHANGED <<ac_meshes, ac_node>>
    /\ UNCHANGED <<ac_object, ac_numMats, ac_it, ac_needMat, ac_mat, ac_scene, ac_err>>

\* the material slot a surface is counted under
CountIdx(surf, numMats) == IF surf.mat >= numMats THEN 0 ELSE surf.mat

DoubleSidedFactor(surf) == IF surf.doubleSided THEN 2 ELSE 1

\* what the switch over the surface type adds to <<faces, vertices>>
CountedFaces(surf) ==
    CASE surf.type = "ClosedLine" -> U32(surf.refs)
      [] surf.type = "OpenLine" -> U32Sub(U32(surf.refs), U32(1))
      [] surf.type = "TriangleStrip" ->
            U32Mul(U32Sub(U32(surf.refs), U32(2)), DoubleSidedFactor(surf))
      [] OTHER -> U32(DoubleSidedFactor(surf))

CountedVertices(surf) ==
    CASE surf.type = "ClosedLine" -> U32Mul(U32(surf.refs), 2)
      [] surf.type = "OpenLine" -> U32Mul(U32Sub(U32(surf.refs), U32(1)), 2)
      [] surf.type = "TriangleStrip" ->
            U32Mul(U32Mul(U32Sub(U32(surf.refs), U32(2)), 3), DoubleSidedFactor(surf))
      [] OTHER -> U32Mul(U32(surf.refs), DoubleSidedFactor(surf))

\* one turn of the counting pass
AC_CountSurface ==
    /\ ac_pc = "count"
    /\ ac_it <= Len(ac_object.surfaces)
    /\ LET surf == ac_object.surfaces[ac_it]
           idx == CountIdx(surf, ac_numMats)
       IN  /\ ac_node' = IF U32IsZero(ac_needMat[idx][1])
                         THEN [ac_node EXCEPT !.mNumMeshes = U32Add(@, U32(1))]
                         ELSE ac_node
           /\ ac_needMat' = [ac_needMat EXCEPT ![idx] =
                                <<U32Add(@[1], CountedFaces(surf)),
                                  U32Add(@[2], CountedVertices(surf))>>]
    /\ ac_it' = ac_it + 1
    /\ UNCHANGED <<ac_pc, ac_object, ac_numMats, ac_mat, ac_meshes, ac_scene, ac_err>>

\* the counting pass is over: node->mMeshes is allocated with mNumMeshes slots
AC_AllocateNodeMeshes ==
    /\ ac_pc = "count"
    /\ ac_it > Len(ac_object.surfaces)
    /\ ac_pc' = "meshes"
    /\ UNCHANGED <<ac_object, ac_numMats, ac_it, ac_needMat, ac_node, ac_mat, ac_meshes,
                   ac_scene, ac_err>>

\* the surfaces whose faces and vertices the output pass writes into the mesh
\* of material mat: those with mat == (*it).mat
WrittenSurfaces(object, mat) ==
    {k \in 1 .. Len(object.surfaces) : object.surfaces[k].mat = mat}

\* the position of the output pass in one mesh: the offsets of the faces and
\* vertices pointers, the message of the exception thrown, whether a slot
\* beyond the arrays was written, whether entries were read beyond their end
NoOutput == [faces |-> 0, vertices |-> 0, err |-> "", overflow |-> FALSE, badRead |-> FALSE]

\* *faces++ is taken: a face slot of the mesh is written
WriteFace(mesh, st) ==
    [st EXCEPT !.faces = @ + 1,
               !.overflow = @ \/ ~U32Less(U32(st.faces), mesh.mNumFaces)]

\* n vertices are stored through *vertices++ without a check
WriteVertices(mesh, st, n) ==
    [st EXCEPT !.vertices = @ + n,
               !.overflow = @ \/ U32Less(mesh.mNumVertices, U32(st.vertices + n))]

\* buildBacksideOfFace: one more face with n flipped vertices
BuildBacksideOfFace(mesh, st, n) == WriteVertices(mesh, WriteFace(mesh, st), n)

\* a closed polygon: one face; each vertex is checked against mNumVertices
\* before it is stored; the back side only if the face has indices
OutputPolygon(mesh, surf, st) ==
    LET face == WriteFace(mesh, st)
    IN  IF surf.refs = 0 THEN face
        ELSE IF U32Less(mesh.mNumVertices, U32(face.vertices + surf.refs))
        THEN [face EXCEPT !.err = "AC3D: Invalid number of vertices"]
        ELSE LET front == WriteVertices(mesh, face, surf.refs)
             IN  IF surf.doubleSided THEN BuildBacksideOfFace(mesh, front, surf.refs)
                 ELSE front

\* a triangle strip: turn i of the loop up to (unsigned)entries.size() - 2
RECURSIVE OutputTriangleStrip(_, _, _, _)
OutputTriangleStrip(mesh, surf, i, st) ==
    IF st.err # "" \/ ~U32Less(U32(i), U32Sub(U32(surf.refs), U32(2))) THEN st
    ELSE IF i + 2 >= surf.refs THEN [st EXCEPT !.badRead = TRUE]
    ELSE LET two == WriteVertices(mesh, WriteFace(mesh, st), 2)
         IN  IF ~U32Less(U32(two.vertices), mesh.mNumVertices)
             THEN [two EXCEPT !.err = "AC3D: Invalid number of vertices"]
             ELSE LET three == WriteVertices(mesh, two, 1)
                  IN  OutputTriangleStrip(mesh, surf, i + 1,
                          IF surf.doubleSided THEN BuildBacksideOfFace(mesh, three, 3)
                          ELSE three)

\* a closed or an unclosed line: turn m of the loop up to tmp
RECURSIVE OutputLine(_, _, _, _)
OutputLine(mesh, surf, m, st) ==
    LET tmp == IF surf.type = "OpenLine" THEN U32Sub(U32(surf.refs), U32(1))
               ELSE U32(surf.refs)
    IN  IF st.err # "" \/ ~U32Less(U32(m), tmp) THEN st
        ELSE LET face == WriteFace(mesh, st)
             IN  IF m = surf.refs THEN [face EXCEPT !.err = "AC3D: Bad line"]
                 ELSE OutputLine(mesh, surf, m + 1, WriteVertices(mesh, face, 2))

\* the output pass over the surfaces from the k-th on, for the mesh of material mat
RECURSIVE OutputPass(_, _, _, _, _)
OutputPass(mesh, object, mat, k, st) ==
    IF k > Len(object.surfaces) \/ st.err # "" \/ st.badRead THEN st
    ELSE LET surf == object.surfaces[k]
         IN  OutputPass(mesh, object, mat, k + 1,
                 IF k \notin WrittenSurfaces(object, mat) THEN st
                 ELSE IF surf.type = "Polygon" THEN OutputPolygon(mesh, surf, st)
                 ELSE IF surf.type = "TriangleStrip"
                 THEN OutputTriangleStrip(mesh, surf, 0, st)
                 ELSE OutputLine(mesh, surf, 0, st))

\* how the output pass of a mesh can end: with the exception it throws, or,
\* after a write beyond the arrays or a read beyond the entries, in any way
\* the build allows
OutputEndings(st) ==
    IF st.badRead THEN {"crash", "AC3D: Invalid number of vertices"}
    ELSE IF st.overflow THEN {"crash", st.err}
    ELSE {st.err}

\* one turn of the loop over needMat: skip the material, or create its mesh
AC_CreateMesh ==
    /\ ac_pc = "meshes"
    /\ ac_mat < ac_numMats
    /\ LET cit == ac_needMat[ac_mat]
           mesh == [mNumFaces |-> cit[1], mNumVertices |-> cit[2],
                    mMaterialIndex |-> Len(ac_meshes),
                    surfaces |-> WrittenSurfaces(ac_object, ac_mat)]
           out == OutputPass(mesh, ac_object, ac_mat, 1, NoOutput)
       IN  IF U32IsZero(cit[1])
           THEN UNCHANGED <<ac_pc, ac_node, ac_meshes, ac_err>>
           ELSE /\ ac_node' = [ac_node EXCEPT !.mMeshes = Append(@, Len(ac_meshes))]
                /\ IF U32Less(MaxAllocFaces, cit[1])
                   THEN /\ ac_pc' = "fatal"
                        /\ ac_err' = "AC3D: Too many faces, would run out of memory"
                        /\ ac_meshes' = Append(ac_meshes,
                               mesh @@ [facesWritten |-> 0, verticesWritten |-> 0])
                   ELSE IF U32IsZero(cit[2])
                   THEN /\ ac_pc' = "fatal" /\ ac_err' = "AC3D: No vertices"
                        /\ ac_meshes' = Append(ac_meshes,
                               mesh @@ [facesWritten |-> 0, verticesWritten |-> 0])
                   ELSE IF U32Less(MaxAllocVertices, cit[2])
                   THEN /\ ac_pc' = "fatal"
                        /\ ac_err' = "AC3D: Too many vertices, would run out of memory"
                        /\ ac_meshes' = Append(ac_meshes,
                               mesh @@ [facesWritten |-> 0, verticesWritten |-> 0])
                   ELSE /\ ac_meshes' = Append(ac_meshes,
                               mesh @@ [facesWritten |-> out.faces,
                                        verticesWritten |-> out.vertices])
                        /\ \E ending \in OutputEndings(out) :
                              IF ending = "" THEN ac_pc' = ac_pc /\ ac_err' = ac_err
                              ELSE ac_pc' = "fatal" /\ ac_err' = ending
    /\ ac_mat' = ac_mat + 1
    /\ UNCHANGED <<ac_object, ac_numMats, ac_it, ac_needMat, ac_scene>>

AC_MeshesDone ==
    /\ ac_pc = "meshes"
    /\ ac_mat >= ac_numMats
    /\ ac_pc' = "finish"
    /\ UNCHANGED <<ac_object, ac_numMats, ac_it, ac_needMat, ac_node, ac_mat, ac_meshes,
                   ac_scene, ac_err>>

\* the values an array slot that was never written can hold
Indeterminate == 0 .. MaxSurfaces

\* the tail of InternReadFile: the node is made the root of the scene, then
\* the meshes are copied to the scene.  The slots of node->mMeshes beyond the
\* filled ones were never written.
AC_InternReadFile ==
    /\ ac_pc = "finish"
    /\ IF ac_meshes = <<>>
       THEN /\ ac_pc' = "fatal"
            /\ ac_err' = "An unknown error occurred during converting"
            /\ ac_scene' = [ac_scene EXCEPT !.mRootNode = TRUE]
       ELSE /\ \E garbage \in Indeterminate :
                 ac_scene' = [mRootNode |-> TRUE, mNumMeshes |-> Len(ac_meshes),
                              nodeMeshes |->
                                 [k \in 1 .. U32Val(ac_node.mNumMeshes) |->
                                    IF k <= Len(ac_node.mMeshes) THEN ac_node.mMeshes[k]
                                    ELSE garbage]]
            /\ ac_pc' = "done"
            /\ UNCHANGED ac_err
    /\ UNCHANGED <<ac_object, ac_numMats, ac_it, ac_needMat, ac_node, ac_mat, ac_meshes>>

ACNext ==
    \/ AC_ConvertObjectSection
    \/ AC_CountSurface
    \/ AC_AllocateNodeMeshes
    \/ AC_CreateMesh
    \/ AC_MeshesDone
    \/ AC_InternReadFile

(***************************************************************************)
(*                LightWave scene reader: LWSImporter::InternReadFile      *)
(*                                                                         *)
(* The element loop declares the nodes (a flat list of NodeDesc), parent   *)
(* resolution links them through children / parent_resolved, the roots are *)
(* counted, the batch loader loads the external files and BuildGraph       *)
(* builds the output nodes.  The file is an LWSC file of version 4 or      *)
(* more, where every item carries its number.  The recursion of BuildGraph *)
(* is a stack of frames.                                                   *)
(***************************************************************************)
MaxNodes == 3

OBJECT == 1
LIGHT == 2
TypeShift == 256 * 1024 * 1024        \* 1 << 28
NoParent == 0

LWSTypes == {OBJECT, LIGHT}

\* the item numbers a file gives: two objects and one light
LWSNumbers(t) == IF t = OBJECT THEN {0, 1} ELSE {0}

VARIABLES
    lws_pc,          \* position in InternReadFile
    lws_nodes,       \* std::list<LWS::NodeDesc> nodes
    lws_ndIt,        \* iterator of the loops over nodes
    lws_errors,      \* number of "cross reference" errors logged
    lws_loaded,      \* BatchLoader::LoadAll has run
    lws_out,         \* the aiNodes created: source description, kind, parent aiNode
    lws_stack,       \* the BuildGraph calls in progress
    lws_built,       \* per node description, the number of BuildGraph calls
    lws_err          \* message of the DeadlyImportError raised, "" if none

lwsVars == <<lws_pc, lws_nodes, lws_ndIt, lws_errors, lws_loaded, lws_out, lws_stack,
             lws_built, lws_err>>

\* the identifier a ParentItem line names an item by: type and number
CombinedId(type, number) == type * TypeShift + number

LWSParentIds ==
    {NoParent} \cup UNION {{CombinedId(t, n) : n \in LWSNumbers(t)} : t \in LWSTypes}

\* NodeDesc::operator==(unsigned int)
NodeDescEquals(nd, num) == num # 0 /\ num = CombinedId(nd.type, nd.number)

LWSInit ==
    /\ lws_pc = "parse"
    /\ lws_nodes = <<>>
    /\ lws_ndIt = 1
    /\ lws_errors = 0
    /\ lws_loaded = FALSE
    /\ lws_out = <<>>
    /\ lws_stack = <<>>
    /\ lws_built = <<>>
    /\ lws_err = ""

LWSIdle ==
    /\ lws_pc = "idle"
    /\ lws_nodes = <<>>
    /\ lws_ndIt = 1
    /\ lws_errors = 0
    /\ lws_loaded = FALSE
    /\ lws_out = <<>>
    /\ lws_stack = <<>>
    /\ lws_built = <<>>
    /\ lws_err = ""

\* 'AddNullObject' / 'AddLight': a node description is appended
LWS_AddNode ==
    /\ lws_pc = "parse"
    /\ Len(lws_nodes) < MaxNodes
    /\ \E t \in LWSTypes : \E n \in LWSNumbers(t) :
          lws_nodes' = Append(lws_nodes,
              [type |-> t, number |-> n, parent |-> NoParent, children |-> <<>>,
               parent_resolved |-> 0])
    /\ UNCHANGED <<lws_pc, lws_ndIt, lws_errors, lws_loaded, lws_out, lws_stack,
                   lws_built, lws_err>>

\* 'ParentItem': sets the parent of the node declared last
LWS_ParentItem ==
    /\ lws_pc = "parse"
    /\ \E p \in LWSParentIds :
          lws_nodes' = IF lws_nodes = <<>> THEN lws_nodes
                       ELSE [lws_nodes EXCEPT ![Len(lws_nodes)].parent = p]
    /\ UNCHANGED <<lws_pc, lws_ndIt, lws_errors, lws_loaded, lws_out, lws_stack,
                   lws_built, lws_err>>

\* the element loop is over
LWS_EndOfElements ==
    /\ lws_pc = "parse"
    /\ lws_pc' = "resolve"
    /\ lws_ndIt' = 1
    /\ UNCHANGED <<lws_nodes, lws_errors, lws_loaded, lws_out, lws_stack, lws_built,
                   lws_err>>

\* whether node dit is attached to node nd in the inner loop
Claims(nodes, nd, dit) == dit # nd /\ NodeDescEquals(nodes[nd], nodes[dit].parent)

\* an attachment to a node that has a resolved parent already is dropped
AlreadyResolvedBroken(nodes, dit) == FALSE
AlreadyResolved(nodes, dit) == nodes[dit].parent_resolved # 0

\* the inner loop of parent resolution for the node nd, from dit on:
\* <<nodes, errors logged>>
RECURSIVE ResolveInner(_, _, _, _)
ResolveInner(nodes, nd, dit, errors) ==
    IF dit > Len(nodes) THEN <<nodes, errors>>
    ELSE IF Claims(nodes, nd, dit)
         THEN IF AlreadyResolved(nodes, dit)
              THEN ResolveInner(nodes, nd, dit + 1, errors + 1)
              ELSE ResolveInner(
                      [nodes EXCEPT ![nd].children = Append(@, dit),
                                    ![dit].parent_resolved = nd],
                      nd, dit + 1, errors)
         ELSE ResolveInner(nodes, nd, dit + 1, errors)

\* the inner loop runs over all nodes, from nodes.begin()
InnerLoopStartBroken(nd) == nd + 1
InnerLoopStart(nd) == 1

\* one turn of the outer loop of parent resolution
LWS_ResolveParenting ==
    /\ lws_pc = "resolve"
    /\ lws_ndIt <= Len(lws_nodes)
    /\ LET r == ResolveInner(lws_nodes, lws_ndIt, InnerLoopStart(lws_ndIt), lws_errors)
       IN  lws_nodes' = r[1] /\ lws_errors' = r[2]
    /\ lws_ndIt' = lws_ndIt + 1
    /\ UNCHANGED <<lws_pc, lws_loaded, lws_out, lws_stack, lws_built, lws_err>>

\* no_parent: the nodes without a resolved parent
NoParentCountBroken(nodes) == Len(nodes)
NoParentCount(nodes) == Cardinality({k \in 1 .. Len(nodes) : nodes[k].parent_resolved = 0})

\* the roots are counted; without a root the import is given up
LWS_CountRoots ==
    /\ lws_pc = "resolve"
    /\ lws_ndIt > Len(lws_nodes)
    /\ IF NoParentCount(lws_nodes) = 0
       THEN lws_pc' = "fatal" /\ lws_err' = "LWS: Unable to find scene root node"
       ELSE lws_pc' = "loadall" /\ lws_err' = lws_err
    /\ UNCHANGED <<lws_nodes, lws_ndIt, lws_errors, lws_loaded, lws_out, lws_stack,
                   lws_built>>

\* batch.LoadAll(), then the master scene and its root <LWSRoot> are set up
LWS_LoadAll ==
    /\ lws_pc = "loadall"
    /\ lws_loaded' = TRUE
    /\ lws_built' = [k \in 1 .. Len(lws_nodes) |-> 0]
    /\ lws_ndIt' = 1
    /\ lws_pc' = "build"
    /\ UNCHANGED <<lws_nodes, lws_errors, lws_out, lws_stack, lws_err>>

\* the aiNodes BuildGraph sets up on entry for the description src, whose
\* aiNode hangs below the aiNode parent (0 is <LWSRoot>): the node itself
\* and, for an object, the attachment node below it
EnterBuildGraph(out, src, parent) ==
    LET nd == Len(out) + 1
        withNode == Append(out, [src |-> src, kind |-> "node", parent |-> parent])
    IN  IF lws_nodes[src].type = OBJECT
        THEN Append(withNode, [src |-> src, kind |-> "attach", parent |-> nd])
        ELSE withNode

\* the loop over the nodes that starts BuildGraph at every node without a
\* resolved parent
LWS_BuildRoots ==
    /\ lws_pc = "build"
    /\ lws_stack = <<>>
    /\ lws_ndIt <= Len(lws_nodes)
    /\ IF lws_nodes[lws_ndIt].parent_resolved = 0
       THEN /\ lws_out' = EnterBuildGraph(lws_out, lws_ndIt, 0)
            /\ lws_stack' = <<[src |-> lws_ndIt, nd |-> Len(lws_out'), it |-> 1]>>
            /\ lws_built' = [lws_built EXCEPT ![lws_ndIt] = @ + 1]
       ELSE UNCHANGED <<lws_out, lws_stack, lws_built>>
    /\ lws_ndIt' = lws_ndIt + 1
    /\ UNCHANGED <<lws_pc, lws_nodes, lws_errors, lws_loaded, lws_err>>

\* BuildGraph, "Add children": one turn of the loop, the recursive call
LWS_BuildChild ==
    /\ lws_pc = "build"
    /\ lws_stack # <<>>
    /\ LET top == lws_stack[Len(lws_stack)]
           kids == lws_nodes[top.src].children
       IN  /\ top.it <= Len(kids)
           /\ lws_built[kids[top.it]] < 2
           /\ lws_out' = EnterBuildGraph(lws_out, kids[top.it], top.nd)
           /\ lws_stack' = Append([lws_stack EXCEPT ![Len(lws_stack)].it = @ + 1],
                                  [src |-> kids[top.it], nd |-> Len(lws_out'), it |-> 1])
           /\ lws_built' = [lws_built EXCEPT ![kids[top.it]] = @ + 1]
    /\ UNCHANGED <<lws_pc, lws_nodes, lws_ndIt, lws_errors, lws_loaded, lws_err>>

\* BuildGraph returns
LWS_BuildReturn ==
    /\ lws_pc = "build"
    /\ lws_stack # <<>>
    /\ lws_stack[Len(lws_stack)].it > Len(lws_nodes[lws_stack[Len(lws_stack)].src].children)
    /\ lws_stack' = SubSeq(lws_stack, 1, Len(lws_stack) - 1)
    /\ UNCHANGED <<lws_pc, lws_nodes, lws_ndIt, lws_errors, lws_loaded, lws_out,
                   lws_built, lws_err>>

\* the graph is built: the scenes are merged into the output scene
LWS_MergeScenes ==
    /\ lws_pc = "build"
    /\ lws_stack = <<>>
    /\ lws_ndIt > Len(lws_nodes)
    /\ lws_pc' = "done"
    /\ UNCHANGED <<lws_nodes, lws_ndIt, lws_errors, lws_loaded, lws_out, lws_stack,
                   lws_built, lws_err>>

LWSNext ==
    \/ LWS_AddNode
    \/ LWS_ParentItem
    \/ LWS_EndOfElements
    \/ LWS_ResolveParenting
    \/ LWS_CountRoots
    \/ LWS_LoadAll
    \/ LWS_BuildRoots
    \/ LWS_BuildChild
    \/ LWS_BuildReturn
    \/ LWS_MergeScenes

(***************************************************************************)
(* LWS::Element::Parse: the recursive reading of the element tree.  The    *)
(* buffer is read line by line; a line that starts with '{' opens an        *)
(* element whose children are read by a recursive call, a line that starts *)
(* with '}' ends the call.                                                  *)
(***************************************************************************)
MAX_DEPTH == 1000

\* the depth the root element is parsed at: root.Parse(dummy, dummyEnd)
RootDepth == 0

VARIABLES
    lwp_pc,        \* "start", "loop" (in the loop of the innermost call), "done", "error"
    lwp_depth,     \* the depth argument of the innermost call in progress
    lwp_nesting,   \* the number of elements open at the read position of the buffer
    lwp_last       \* the kind of the line read last

lwpVars == <<lwp_pc, lwp_depth, lwp_nesting, lwp_last>>

LWPInit ==
    /\ lwp_pc = "start"
    /\ lwp_depth = RootDepth
    /\ lwp_nesting = 0
    /\ lwp_last = "none"

LWPIdle ==
    /\ lwp_pc = "idle"
    /\ lwp_depth = RootDepth
    /\ lwp_nesting = 0
    /\ lwp_last = "none"

\* the test at the entry of Parse
DepthExceededBroken(depth) == depth > MAX_DEPTH + 1
DepthExceeded(depth) == depth > MAX_DEPTH

\* root.Parse(dummy, dummyEnd)
LWP_ParseRoot ==
    /\ lwp_pc = "start"
    /\ lwp_pc' = IF DepthExceeded(RootDepth) THEN "error" ELSE "loop"
    /\ UNCHANGED <<lwp_depth, lwp_nesting, lwp_last>>

\* a data line, or a Plugin block that is skipped up to EndPlugin: the
\* element is appended and the loop goes on
LWP_Line ==
    /\ lwp_pc = "loop"
    /\ \E kind \in {"line", "plugin"} : lwp_last' = kind
    /\ UNCHANGED <<lwp_pc, lwp_depth, lwp_nesting>>

\* a line that starts with '{': the element is appended and its children
\* are parsed by children.back().Parse(buffer, end, depth + 1)
LWP_Open ==
    /\ lwp_pc = "loop"
    /\ lwp_last' = "open"
    /\ lwp_nesting' = lwp_nesting + 1
    /\ IF DepthExceeded(lwp_depth + 1)
       THEN lwp_pc' = "error" /\ lwp_depth' = lwp_depth
       ELSE lwp_pc' = "loop" /\ lwp_depth' = lwp_depth + 1

\* a line that starts with '}': the call returns; its caller skips the line
\* and goes on with its loop
LWP_Close ==
    /\ lwp_pc = "loop"
    /\ lwp_last' = "close"
    /\ IF lwp_depth = RootDepth
       THEN lwp_pc' = "done" /\ UNCHANGED <<lwp_depth, lwp_nesting>>
       ELSE /\ lwp_pc' = "loop"
            /\ lwp_depth' = lwp_depth - 1
            /\ lwp_nesting' = lwp_nesting - 1

\* the end of the buffer: the loop of every call in progress ends
LWP_EndOfBuffer ==
    /\ lwp_pc = "loop"
    /\ lwp_pc' = "done"
    /\ lwp_last' = "end"
    /\ UNCHANGED <<lwp_depth, lwp_nesting>>

LWPNext ==
    \/ LWP_ParseRoot
    \/ LWP_Line
    \/ LWP_Open
    \/ LWP_Close
    \/ LWP_EndOfBuffer

(***************************************************************************)
(* AC3D: the nesting of objects.  AC3DImporter::InternReadFile loads the   *)
(* top-level objects with LoadObjectSection, which calls itself for the    *)
(* children announced by a 'kids' line, and converts the object tree with  *)
(* ConvertObjectSection, which calls itself for the children of an object. *)
(* The objects of the model have at most one child each.                   *)
(***************************************************************************)
MaxNesting == 1002
MaxRoots == 2

VARIABLES
    acn_pc,       \* "lines", "object", "convert", "done", "fatal"
    acn_depth,    \* the number of LoadObjectSection calls in progress
    acn_nest,     \* the number of object levels of the root object loaded last
    acn_roots,    \* rootObjects.size()
    acn_cdepth,   \* the number of ConvertObjectSection calls in progress
    acn_err       \* message of the DeadlyImportError raised, "" if none

acnVars == <<acn_pc, acn_depth, acn_nest, acn_roots, acn_cdepth, acn_err>>

ACNInit ==
    /\ acn_pc = "lines"
    /\ acn_depth = 0
    /\ acn_nest = 0
    /\ acn_roots = 0
    /\ acn_cdepth = 0
    /\ acn_err = ""

ACNIdle ==
    /\ acn_pc = "idle"
    /\ acn_depth = 0
    /\ acn_nest = 0
    /\ acn_roots = 0
    /\ acn_cdepth = 0
    /\ acn_err = ""

\* InternReadFile: a line of the top level that is no MATERIAL line calls
\* LoadObjectSection(rootObjects); an OBJECT line appends a root object
ACN_LoadRootObject ==
    /\ acn_pc = "lines"
    /\ acn_roots < MaxRoots
    /\ acn_roots' = acn_roots + 1
    /\ acn_depth' = 1
    /\ acn_nest' = 1
    /\ acn_pc' = "object"
    /\ UNCHANGED <<acn_cdepth, acn_err>>

\* LoadObjectSection, 'kids 1' followed by an OBJECT line: the child is
\* loaded by a recursive call
ACN_LoadChild ==
    /\ acn_pc = "object"
    /\ acn_depth < MaxNesting
    /\ acn_depth' = acn_depth + 1
    /\ acn_nest' = acn_nest + 1
    /\ UNCHANGED <<acn_pc, acn_roots, acn_cdepth, acn_err>>

\* LoadObjectSection returns: after 'kids 0', after 'kids 1' that no OBJECT
\* line follows ("wrong number of kids"), or at the end of the buffer
\* ("Unexpected EOF").  The loop over the kids of each caller is over with
\* its one child, so the callers return as well.
ACN_Return ==
    /\ acn_pc = "object"
    /\ acn_depth' = 0
    /\ acn_pc' = "lines"
    /\ UNCHANGED <<acn_nest, acn_roots, acn_cdepth, acn_err>>

\* the end of the buffer at the top level: without a root object the import
\* is given up, else the tree is converted from its root.  With several
\* top-level objects the root is a new Object() without children.
ACN_ConvertRoot ==
    /\ acn_pc = "lines"
    /\ IF acn_roots = 0
       THEN /\ acn_pc' = "fatal"
            /\ acn_err' = "AC3D: No meshes have been loaded"
            /\ UNCHANGED <<acn_cdepth, acn_nest>>
       ELSE /\ acn_pc' = "convert"
            /\ acn_cdepth' = 1
            /\ acn_nest' = IF acn_roots = 1 THEN acn_nest ELSE 1
            /\ UNCHANGED acn_err
    /\ UNCHANGED <<acn_depth, acn_roots>>

\* ConvertObjectSection, "add children to the object": the recursive call
ACN_ConvertChild ==
    /\ acn_pc = "convert"
    /\ acn_cdepth < acn_nest
    /\ acn_cdepth' = acn_cdepth + 1
    /\ UNCHANGED <<acn_pc, acn_depth, acn_nest, acn_roots, acn_err>>

\* ConvertObjectSection returns for an object without children, and with it
\* the calls for its ancestors.  The objects of a single root may have made
\* meshes or not; the generated root of several top-level objects has no
\* vertices and no children, so no mesh was made and the import is given up
ACN_ConvertReturn ==
    /\ acn_pc = "convert"
    /\ acn_cdepth = acn_nest
    /\ acn_cdepth' = 0
    /\ \E meshesEmpty \in (IF acn_roots = 1 THEN BOOLEAN ELSE {TRUE}) :
          IF meshesEmpty
          THEN /\ acn_pc' = "fatal"
               /\ acn_err' = "An unknown error occurred during converting"
          ELSE /\ acn_pc' = "done"
               /\ UNCHANGED acn_err
    /\ UNCHANGED <<acn_depth, acn_nest, acn_roots>>

ACNNext ==
    \/ ACN_LoadRootObject
    \/ ACN_LoadChild
    \/ ACN_Return
    \/ ACN_ConvertRoot
    \/ ACN_ConvertChild
    \/ ACN_ConvertReturn

(***************************************************************************)
(* SMD: the vertexanimation section.  SMDImporter::ParseFile hands the     *)
(* lines after a 'vertexanimation' line to ParseVASection and skips, line  *)
(* by line, whatever follows the section and starts no other section.      *)
(***************************************************************************)
MaxVALines == 7

VATimes == {0, 5, 10}
NoTime == 0 - 1

VARIABLES
    va_pc,           \* "section" (in ParseVASection), "file" (back in ParseFile), "eof"
    va_frame,        \* configFrameID
    va_time,         \* the time of the 'time' line read last, NoTime before the first
    va_lines,        \* the number of lines of the buffer read so far
    va_seen,         \* the vertex lines of the buffer read so far, with their time
    va_triangles,    \* asTriangles
    va_iCurIndex,    \* iCurIndex
    va_parsed        \* the vertex lines ParseVASection handed to ParseVertex, in order

vaVars == <<va_pc, va_frame, va_time, va_lines, va_seen, va_triangles, va_iCurIndex,
            va_parsed>>

\* a vertex slot that was not written
NoVertex == [time |-> NoTime, id |-> 0]

\* asTriangles.emplace_back()
NewFace == [avVertices |-> [k \in 0 .. 2 |-> NoVertex]]

VAInit ==
    /\ va_pc = "section"
    /\ va_frame \in VATimes
    /\ va_time = NoTime
    /\ va_lines = 0
    /\ va_seen = {}
    /\ va_triangles = <<>>
    /\ va_iCurIndex = 0
    /\ va_parsed = <<>>

VAIdle ==
    /\ va_pc = "idle"
    /\ va_frame = 0
    /\ va_time = NoTime
    /\ va_lines = 0
    /\ va_seen = {}
    /\ va_triangles = <<>>
    /\ va_iCurIndex = 0
    /\ va_parsed = <<>>

\* the end of ParseVASection: a last triangle is thrown away unless
\* iCurIndex is 2
DropDegenerate(triangles, iCurIndex) ==
    IF iCurIndex # 2 /\ triangles # <<>>
    THEN SubSeq(triangles, 1, Len(triangles) - 1)
    ELSE triangles

\* whether a 'time' line ends the section
TimeMismatch(frame, iTime) == frame # iTime

\* ParseVASection, a 'time <n>' line: the section goes on if n is the
\* configured frame, else the loop is left
VA_TimeLine ==
    /\ va_pc = "section"
    /\ va_lines < MaxVALines
    /\ \E t \in VATimes :
          /\ va_time' = t
          /\ IF TimeMismatch(va_frame, t)
             THEN /\ va_pc' = "file"
                  /\ va_triangles' = DropDegenerate(va_triangles, va_iCurIndex)
             ELSE UNCHANGED <<va_pc, va_triangles>>
    /\ va_lines' = va_lines + 1
    /\ UNCHANGED <<va_frame, va_seen, va_iCurIndex, va_parsed>>

\* ParseVASection, a vertex line: ParseVertex fills the slot iCurIndex of the
\* last triangle, after iCurIndex was advanced
VA_VertexLine ==
    /\ va_pc = "section"
    /\ va_lines < MaxVALines
    /\ LET v == [time |-> va_time, id |-> va_lines + 1]
           faces == IF va_iCurIndex = 0 THEN Append(va_triangles, NewFace)
                    ELSE va_triangles
           next == IF va_iCurIndex + 1 = 3 THEN 0 ELSE va_iCurIndex + 1
       IN  /\ va_iCurIndex' = next
           /\ va_triangles' = [faces EXCEPT ![Len(faces)].avVertices[next] = v]
           /\ va_seen' = va_seen \cup {v}
           /\ va_parsed' = Append(va_parsed, v)
    /\ va_lines' = va_lines + 1
    /\ UNCHANGED <<va_pc, va_frame, va_time>>

\* ParseVASection, the 'end' line, a 'time' line without a number or the end
\* of the buffer: the loop is left
VA_EndOfSection ==
    /\ va_pc = "section"
    /\ va_pc' = "file"
    /\ va_triangles' = DropDegenerate(va_triangles, va_iCurIndex)
    /\ UNCHANGED <<va_frame, va_time, va_lines, va_seen, va_iCurIndex, va_parsed>>

\* ParseFile: a line after the section that starts no section is skipped,
\* be it a 'time' line or a vertex line
VA_SkipLine ==
    /\ va_pc = "file"
    /\ va_lines < MaxVALines
    /\ \/ \E t \in VATimes : va_time' = t /\ UNCHANGED va_seen
       \/ /\ va_seen' = va_seen \cup {[time |-> va_time, id |-> va_lines + 1]}
          /\ UNCHANGED va_time
    /\ va_lines' = va_lines + 1
    /\ UNCHANGED <<va_pc, va_frame, va_triangles, va_iCurIndex, va_parsed>>

\* ParseFile: the end of the buffer
VA_EndOfFile ==
    /\ va_pc = "file"
    /\ va_pc' = "eof"
    /\ UNCHANGED <<va_frame, va_time, va_lines, va_seen, va_triangles, va_iCurIndex,
                   va_parsed>>

VANext ==
    \/ VA_TimeLine
    \/ VA_VertexLine
    \/ VA_EndOfSection
    \/ VA_SkipLine
    \/ VA_EndOfFile


\* ---------------------------------------------------------------------------
\* SMD: InternReadFile, from the lists ReadSmd leaves to the finished scene
\* ---------------------------------------------------------------------------
MaxBones == 3
MaxAnimFiles == 1

\* static_cast<uint32_t>(-1), the parent of a bone that has none
RootParent == 0 - 1
\* the bone field of the node CreateOutputNodes makes for the scene root
SceneRootNode == 0 - 1

VARIABLES smi_pc, smi_asBones, smi_numTriangles, smi_noSkeletonMesh,
          smi_animFiles, smi_scene, smi_err

smiVars == <<smi_pc, smi_asBones, smi_numTriangles, smi_noSkeletonMesh,
             smi_animFiles, smi_scene, smi_err>>

\* a scene as the importer receives it
NewScene == [incomplete |-> FALSE, hasRoot |-> FALSE, nodes |-> <<>>,
             mNumMeshes |-> 0, mNumMaterials |-> 0, rootMeshes |-> <<>>,
             mNumAnimations |-> 0, channels |-> {}]

\* asBones[i + 1] is the iParent of bone i: any number the file declares
BoneLists == UNION {[1 .. n -> RootParent .. MaxBones] : n \in 0 .. MaxBones}
AnimFileLists == UNION {[1 .. n -> {"ok", "nobones", "unreadable"}] : n \in 0 .. MaxAnimFiles}

SMIInit ==
    /\ smi_pc = "read"
    /\ smi_asBones \in BoneLists
    /\ smi_numTriangles \in 0 .. 1
    /\ smi_noSkeletonMesh \in BOOLEAN
    /\ smi_animFiles \in AnimFileLists
    /\ smi_scene = NewScene
    /\ smi_err = ""

SMIIdle ==
    /\ smi_pc = "idle"
    /\ smi_asBones = <<>>
    /\ smi_numTriangles = 0
    /\ smi_noSkeletonMesh = FALSE
    /\ smi_animFiles = <<>>
    /\ smi_scene = NewScene
    /\ smi_err = ""

\* the test that ends the import with 'No triangles and no bones'
NothingReadBroken(numTriangles, numBones) == numTriangles = 0
NothingRead(numTriangles, numBones) == numTriangles = 0 /\ numBones = 0

\* InternReadFile up to the call of CreateOutputNodes
SMI_CheckLists ==
    /\ smi_pc = "read"
    /\ IF NothingRead(smi_numTriangles, Len(smi_asBones))
       THEN /\ smi_pc' = "fatal"
            /\ smi_err' = "SMD: No triangles and no bones have been found in the file"
            /\ UNCHANGED smi_scene
       ELSE /\ smi_pc' = "nodes"
            /\ smi_scene' = [smi_scene EXCEPT !.incomplete = (smi_numTriangles = 0)]
            /\ UNCHANGED smi_err
    /\ UNCHANGED <<smi_asBones, smi_numTriangles, smi_noSkeletonMesh, smi_animFiles>>

\* AddBoneChildren(pcNode, iParent): the bones whose iParent is iParent become
\* children of the node at position pos, each followed by its own subtree;
\* i is the loop variable of the second loop
RECURSIVE AddBoneChildren(_, _, _, _, _)
AddBoneChildren(asBones, nodes, pos, iParent, i) ==
    IF i >= Len(asBones) THEN nodes
    ELSE IF asBones[i + 1] # iParent
         THEN AddBoneChildren(asBones, nodes, pos, iParent, i + 1)
         ELSE LET pc == Append(nodes, [bone |-> i, parent |-> pos])
                  sub == AddBoneChildren(asBones, pc, Len(pc), i, 0)
              IN  AddBoneChildren(asBones, sub, pos, iParent, i + 1)

NumChildren(nodes, pos) == Cardinality({k \in 1 .. Len(nodes) : nodes[k].parent = pos})

\* the old root is deleted and its only child, the node after it, is the root
RemoveRoot(nodes) ==
    [k \in 1 .. Len(nodes) - 1 |->
        [bone |-> nodes[k + 1].bone, parent |-> nodes[k + 1].parent - 1]]

CreateOutputNodes(asBones, incomplete) ==
    LET all == AddBoneChildren(asBones, <<[bone |-> SceneRootNode, parent |-> 0]>>,
                               1, RootParent, 0)
    IN  IF incomplete /\ NumChildren(all, 1) = 1 THEN RemoveRoot(all) ELSE all

SMI_CreateOutputNodes ==
    /\ smi_pc = "nodes"
    /\ smi_scene' = [smi_scene EXCEPT !.hasRoot = TRUE,
                        !.nodes = CreateOutputNodes(smi_asBones, smi_scene.incomplete)]
    /\ smi_pc' = IF smi_scene.incomplete THEN "anims" ELSE "meshes"
    /\ UNCHANGED <<smi_asBones, smi_numTriangles, smi_noSkeletonMesh, smi_animFiles, smi_err>>

\* CreateOutputMeshes, CreateOutputMaterials and the mesh indices of the root:
\* the triangles of the model use one texture, so one mesh and one material
SMI_CreateOutputMeshes ==
    /\ smi_pc = "meshes"
    /\ smi_scene' = [smi_scene EXCEPT !.mNumMeshes = 1, !.mNumMaterials = 1,
                                      !.rootMeshes = <<0>>]
    /\ smi_pc' = "anims"
    /\ UNCHANGED <<smi_asBones, smi_numTriangles, smi_noSkeletonMesh, smi_animFiles, smi_err>>

\* the files of the animation list that ReadSmd opens before one fails
Unreadable(files) == {k \in 1 .. Len(files) : files[k] = "unreadable"}
FirstUnreadable(files) == CHOOSE k \in Unreadable(files) : \A j \in Unreadable(files) : k <= j
ReadBefore(files) ==
    IF Unreadable(files) = {} THEN Len(files) ELSE FirstUnreadable(files) - 1

\* CreateOutputAnimations: animation 0 has one channel per bone of the primary
\* file; every listed file is read with ReadSmd, which throws when it cannot
\* open the file
SMI_CreateOutputAnimations ==
    /\ smi_pc = "anims"
    /\ smi_scene' = [smi_scene EXCEPT
           !.mNumAnimations = 1 + Cardinality({k \in 1 .. ReadBefore(smi_animFiles) :
                                                 smi_animFiles[k] = "ok"}),
           !.channels = 0 .. Len(smi_asBones) - 1]
    /\ IF Unreadable(smi_animFiles) # {}
       THEN /\ smi_pc' = "fatal"
            /\ smi_err' = "SMD: Failed to open SMD/VTA file"
       ELSE /\ smi_pc' = IF smi_scene.incomplete /\ ~smi_noSkeletonMesh
                         THEN "skeleton" ELSE "done"
            /\ UNCHANGED smi_err
    /\ UNCHANGED <<smi_asBones, smi_numTriangles, smi_noSkeletonMesh, smi_animFiles>>

\* SkeletonMeshBuilder: a scene without meshes gets one placeholder mesh on
\* its root node, with a material
SkeletonMeshBuilder(scene) ==
    IF scene.mNumMeshes # 0 \/ ~scene.hasRoot THEN scene
    ELSE [scene EXCEPT !.mNumMeshes = 1, !.rootMeshes = <<0>>,
                       !.mNumMaterials = IF @ = 0 THEN 1 ELSE @]

SMI_SkeletonMesh ==
    /\ smi_pc = "skeleton"
    /\ smi_scene' = SkeletonMeshBuilder(smi_scene)
    /\ smi_pc' = "done"
    /\ UNCHANGED <<smi_asBones, smi_numTriangles, smi_noSkeletonMesh, smi_animFiles, smi_err>>

SMINext ==
    \/ SMI_CheckLists
    \/ SMI_CreateOutputNodes
    \/ SMI_CreateOutputMeshes
    \/ SMI_CreateOutputAnimations
    \/ SMI_SkeletonMesh


(***************************************************************************)
(* LightWave scene reader: InternReadFile from the header to the merge,    *)
(* for scenes whose items are objects without ParentItem lines: every node *)
(* is a root.  LoadObject and LoadObjectLayer lines register a file with   *)
(* the batch loader; BuildGraph asks the loader for the scene of each.     *)
(***************************************************************************)
MaxObjects == 3

\* pFile, a file the batch loader can read and one it cannot
SelfPath == "scene.lws"
LoadablePaths == {"a.lwo"}
UnloadablePaths == {"b.lwo"}
\* what FindLWOFile can return for a LoadObject line
ObjectPaths == {"", SelfPath} \cup LoadablePaths \cup UnloadablePaths

VARIABLES
    lwl_pc,       \* position in InternReadFile
    lwl_last,     \* the path of the LoadObject line read last, "none" before
    lwl_nodes,    \* std::list<LWS::NodeDesc> nodes: path and batch id of each
    lwl_batch,    \* the load requests of the BatchLoader, by id
    lwl_it,       \* iterator of the loop that calls BuildGraph
    lwl_out,      \* per BuildGraph call: the description and whether obj was set
    lwl_attach,   \* std::vector<AttachmentInfo> attach: the description attached to
    lwl_root,     \* pScene->mRootNode is set
    lwl_err,      \* message of the DeadlyImportError raised, "" if none
    lwl_loadAlls, \* the number of calls of batch.LoadAll()
    lwl_files,    \* per request id, the scene as the batch loader loaded it
    lwl_scenes,   \* per request id, the scene object as it is now
    lwl_merged    \* per attachment, the subtree MergeScenes copies below it

lwlVars == <<lwl_pc, lwl_last, lwl_nodes, lwl_batch, lwl_it, lwl_out, lwl_attach,
             lwl_root, lwl_err, lwl_loadAlls, lwl_files, lwl_scenes, lwl_merged>>

LWLInit ==
    /\ lwl_pc = "header"
    /\ lwl_last = "none"
    /\ lwl_nodes = <<>>
    /\ lwl_batch = <<>>
    /\ lwl_it = 1
    /\ lwl_out = <<>>
    /\ lwl_attach = <<>>
    /\ lwl_root = FALSE
    /\ lwl_err = ""
    /\ lwl_loadAlls = 0
    /\ lwl_files = <<>>
    /\ lwl_scenes = <<>>
    /\ lwl_merged = <<>>

LWLIdle ==
    /\ lwl_pc = "idle"
    /\ lwl_last = "none"
    /\ lwl_nodes = <<>>
    /\ lwl_batch = <<>>
    /\ lwl_it = 1
    /\ lwl_out = <<>>
    /\ lwl_attach = <<>>
    /\ lwl_root = FALSE
    /\ lwl_err = ""
    /\ lwl_loadAlls = 0
    /\ lwl_files = <<>>
    /\ lwl_scenes = <<>>
    /\ lwl_merged = <<>>

\* the first element of the file and the one after it
LWSMagics == {"LWSC", "LWMO", "other", "no element"}
LWSVersions == {"3", "", "no element"}

\* the magic and version tests.  With no element at all the first test reads
\* through the end iterator of an empty list: whatever the build does then
LWL_Header ==
    /\ lwl_pc = "header"
    /\ \E magic \in LWSMagics, version \in LWSVersions :
         IF magic = "no element"
         THEN \E outcome \in {"fatal", "returned", "crashed", "elements"} :
                 /\ lwl_pc' = outcome
                 /\ lwl_err' = IF outcome = "fatal"
                               THEN "LWS: Not a LightWave scene, magic tag LWSC not found"
                               ELSE lwl_err
         ELSE IF magic \notin {"LWSC", "LWMO"}
         THEN /\ lwl_pc' = "fatal"
              /\ lwl_err' = "LWS: Not a LightWave scene, magic tag LWSC not found"
         ELSE IF version \in {"", "no element"}
         THEN /\ lwl_pc' = "returned"
              /\ UNCHANGED lwl_err
         ELSE /\ lwl_pc' = "elements"
              /\ UNCHANGED lwl_err
    /\ UNCHANGED <<lwl_last, lwl_nodes, lwl_batch, lwl_it, lwl_out, lwl_attach, lwl_root>>
    /\ UNCHANGED <<lwl_loadAlls, lwl_files, lwl_scenes, lwl_merged>>

\* the test of a LoadObject path against the path of the scene file
IsSelfReferenceBroken(path, pFile) == FALSE
IsSelfReference(path, pFile) == path = pFile

\* BatchLoader::AddLoadRequest: the id of the request, a new one unless the
\* same file was requested before
RequestIds(batch, path) == {i \in 1 .. Len(batch) : batch[i] = path}
AddLoadRequest(batch, path) ==
    IF RequestIds(batch, path) = {} THEN Append(batch, path) ELSE batch
RequestId(batch, path) == CHOOSE i \in RequestIds(batch, path) : TRUE

\* BatchLoader::GetImport: the scene of the request, or none when the file
\* could not be loaded
GetImport(batch, id) == id \in 1 .. Len(batch) /\ batch[id] \in LoadablePaths

\* 'LoadObject' and 'LoadObjectLayer'
LWL_LoadObject ==
    /\ lwl_pc = "elements"
    /\ Len(lwl_nodes) < MaxObjects
    /\ \E path \in ObjectPaths, keyword \in {"LoadObject", "LoadObjectLayer"} :
         /\ lwl_last' = path
         /\ IF path = ""
            THEN /\ lwl_pc' = "fatal"
                 /\ lwl_err' = "LWS: Invalid " \o keyword \o ": empty path."
                 /\ UNCHANGED <<lwl_nodes, lwl_batch>>
            ELSE IF IsSelfReference(path, SelfPath)
            THEN /\ lwl_pc' = "fatal"
                 /\ lwl_err' = "LWS: Invalid " \o keyword \o ": self reference."
                 /\ UNCHANGED <<lwl_nodes, lwl_batch>>
            ELSE /\ lwl_batch' = AddLoadRequest(lwl_batch, path)
                 /\ lwl_nodes' = Append(lwl_nodes,
                        [path |-> path, id |-> RequestId(lwl_batch', path)])
                 /\ UNCHANGED <<lwl_pc, lwl_err>>
    /\ UNCHANGED <<lwl_it, lwl_out, lwl_attach, lwl_root>>
    /\ UNCHANGED <<lwl_loadAlls, lwl_files, lwl_scenes, lwl_merged>>

\* 'AddNullObject': a node without a file
LWL_AddNullObject ==
    /\ lwl_pc = "elements"
    /\ Len(lwl_nodes) < MaxObjects
    /\ lwl_nodes' = Append(lwl_nodes, [path |-> "", id |-> 0])
    /\ UNCHANGED <<lwl_pc, lwl_last, lwl_batch, lwl_it, lwl_out, lwl_attach, lwl_root, lwl_err>>
    /\ UNCHANGED <<lwl_loadAlls, lwl_files, lwl_scenes, lwl_merged>>

\* the element loop is over; no node is the child of another, so the loops
\* that resolve parents change nothing and every node counts as one without
\* parent
LWL_EndOfElements ==
    /\ lwl_pc = "elements"
    /\ IF Len(lwl_nodes) = 0
       THEN lwl_pc' = "fatal" /\ lwl_err' = "LWS: Unable to find scene root node"
       ELSE lwl_pc' = "loadall" /\ lwl_err' = lwl_err
    /\ UNCHANGED <<lwl_last, lwl_nodes, lwl_batch, lwl_it, lwl_out, lwl_attach, lwl_root>>
    /\ UNCHANGED <<lwl_loadAlls, lwl_files, lwl_scenes, lwl_merged>>

\* a loaded scene, as far as BuildGraph looks at it: mNumChildren of the root,
\* of its first child, and so on down the first children
NoScene == <<>>
FileScenes == {<<0>>, <<2>>, <<1, 0>>, <<1, 2>>, <<1, 1, 0>>}

\* BatchLoader::LoadAll: every request is loaded, each file once
LoadAll(batch) ==
    {f \in [1 .. Len(batch) -> FileScenes \cup {NoScene}] :
        \A i \in 1 .. Len(batch) : (f[i] = NoScene) <=> (batch[i] \notin LoadablePaths)}

\* batch.LoadAll(), then the master scene and its root are set up
LWL_LoadAllBroken ==
    /\ lwl_pc = "elements"
    /\ lwl_loadAlls < 2
    /\ lwl_loadAlls' = lwl_loadAlls + 1
    /\ \E f \in LoadAll(lwl_batch) : lwl_files' = f /\ lwl_scenes' = f
    /\ UNCHANGED <<lwl_pc, lwl_last, lwl_nodes, lwl_batch, lwl_it, lwl_out, lwl_attach,
                   lwl_root, lwl_err, lwl_merged>>
LWL_LoadAll ==
    /\ lwl_pc = "loadall"
    /\ lwl_loadAlls' = lwl_loadAlls + 1
    /\ \E f \in LoadAll(lwl_batch) : lwl_files' = f /\ lwl_scenes' = f
    /\ lwl_pc' = "build"
    /\ UNCHANGED <<lwl_last, lwl_nodes, lwl_batch, lwl_it, lwl_out, lwl_attach,
                   lwl_root, lwl_err, lwl_merged>>

\* BuildGraph on a loaded scene whose root has exactly one child: the root is
\* deleted and the child is the root of the scene from then on
RemovePivot(scene) == IF scene[1] = 1 THEN Tail(scene) ELSE scene

\* BuildGraph for the node at the iterator: the node and its attachment node
\* are made; with a file that was loaded the attachment is recorded
LWL_BuildGraph ==
    /\ lwl_pc = "build"
    /\ lwl_it <= Len(lwl_nodes)
    /\ LET src == lwl_nodes[lwl_it]
           obj == src.path # "" /\ GetImport(lwl_batch, src.id)
       IN  /\ lwl_out' = Append(lwl_out, [src |-> lwl_it, obj |-> obj])
           /\ lwl_attach' = IF obj THEN Append(lwl_attach, lwl_it) ELSE lwl_attach
           /\ lwl_scenes' = IF obj THEN [lwl_scenes EXCEPT ![src.id] = RemovePivot(@)]
                            ELSE lwl_scenes
    /\ lwl_it' = lwl_it + 1
    /\ UNCHANGED <<lwl_pc, lwl_last, lwl_nodes, lwl_batch, lwl_root, lwl_err>>
    /\ UNCHANGED <<lwl_loadAlls, lwl_files, lwl_merged>>

\* SceneCombiner::MergeScenes puts the master scene into pScene, with a copy
\* of the attached scene below every attachment node
LWL_MergeScenes ==
    /\ lwl_pc = "build"
    /\ lwl_it > Len(lwl_nodes)
    /\ lwl_root' = TRUE
    /\ lwl_merged' = [a \in 1 .. Len(lwl_attach) |-> lwl_scenes[lwl_nodes[lwl_attach[a]].id]]
    /\ lwl_pc' = "done"
    /\ UNCHANGED <<lwl_last, lwl_nodes, lwl_batch, lwl_it, lwl_out, lwl_attach, lwl_err>>
    /\ UNCHANGED <<lwl_loadAlls, lwl_files, lwl_scenes>>

LWLNext ==
    \/ LWL_Header
    \/ LWL_LoadObject
    \/ LWL_AddNullObject
    \/ LWL_EndOfElements
    \/ LWL_LoadAll
    \/ LWL_BuildGraph
    \/ LWL_MergeScenes


(***************************************************************************)
(* SMD reader: the skeleton section and the time values, for one importer  *)
(* object that imports two files one after the other.  Next to it a second *)
(* importer object, newly constructed, imports the second file only.       *)
(***************************************************************************)
MaxSKLines == 3

INT_MAX == 2147483647
SKTimes == {0 - 3, 0, 2, 5}

VARIABLES
    sk_pc,        \* "start", "skeleton" (in ParseSkeletonSection), "done"
    sk_import,    \* 1 or 2: which import of the used importer is running
    sk_lines,     \* the number of lines of the section read so far
    sk_used,      \* the importer object that runs both imports
    sk_fresh      \* the importer object constructed for the second import

skVars == <<sk_pc, sk_import, sk_lines, sk_used, sk_fresh>>

\* the scene of an import: not written, or the duration and the key times of
\* animation 0, or the fatal error
NoSMDScene == [status |-> "none", mDuration |-> 0, keys |-> <<>>]

\* SMDImporter::SMDImporter()
NewImporter ==
    [iSmallestFrame |-> INT_MAX, dLengthOfAnim |-> 0, iTime |-> 0,
     bones |-> FALSE, triangles |-> FALSE, keys |-> <<>>, scene |-> NoSMDScene]

SKInit ==
    /\ sk_pc = "start"
    /\ sk_import = 1
    /\ sk_lines = 0
    /\ sk_used = NewImporter
    /\ sk_fresh = NewImporter

SKIdle ==
    /\ sk_pc = "idle"
    /\ sk_import = 1
    /\ sk_lines = 0
    /\ sk_used = NewImporter
    /\ sk_fresh = NewImporter

\* ReadSmd up to the skeleton section: what it resets, and the lists the
\* nodes and triangles sections of the file leave; iTime is the local
\* variable of ParseSkeletonSection
ReadSmd(imp, bones, triangles) ==
    [imp EXCEPT !.iSmallestFrame = INT_MAX, !.iTime = 0, !.bones = bones,
                !.triangles = triangles, !.keys = <<>>, !.scene = NoSMDScene]

Min(a, b) == IF a < b THEN a ELSE b
Max(a, b) == IF a < b THEN b ELSE a

\* ParseSkeletonSection, a 'time <n>' line
SkeletonTime(imp, n) ==
    [imp EXCEPT !.iTime = n, !.iSmallestFrame = Min(@, n)]

\* ParseSkeletonElement for bone 0: a key at the current time, if there is
\* such a bone
SkeletonElement(imp) ==
    IF imp.bones THEN [imp EXCEPT !.keys = Append(@, imp.iTime)] ELSE imp

RECURSIVE MaxTime(_)
MaxTime(keys) == IF keys = <<>> THEN 0 ELSE Max(Head(keys), MaxTime(Tail(keys)))

\* FixTimeValues
FixTimeValues(imp) ==
    LET fixed == [k \in 1 .. Len(imp.keys) |-> imp.keys[k] - imp.iSmallestFrame]
    IN  [imp EXCEPT !.keys = fixed, !.dLengthOfAnim = MaxTime(fixed)]

\* InternReadFile after ReadSmd, with CreateOutputAnimation for animation 0
FinishImport(imp) ==
    IF ~imp.triangles /\ ~imp.bones
    THEN [imp EXCEPT !.scene = [status |-> "fatal", mDuration |-> 0, keys |-> <<>>]]
    ELSE LET f == IF imp.bones THEN FixTimeValues(imp) ELSE imp
         IN  [f EXCEPT !.scene = [status |-> "ok", mDuration |-> f.dLengthOfAnim,
                                  keys |-> f.keys]]

\* the importers that take part in the current import
ForBoth(used, fresh) ==
    /\ sk_used' = used
    /\ sk_fresh' = IF sk_import = 2 THEN fresh ELSE sk_fresh

SK_ReadSmd ==
    /\ sk_pc = "start"
    /\ \E bones \in BOOLEAN, triangles \in BOOLEAN :
          ForBoth(ReadSmd(sk_used, bones, triangles), ReadSmd(sk_fresh, bones, triangles))
    /\ sk_pc' = "skeleton"
    /\ UNCHANGED <<sk_import, sk_lines>>

SK_TimeLine ==
    /\ sk_pc = "skeleton"
    /\ sk_lines < MaxSKLines
    /\ \E n \in SKTimes : ForBoth(SkeletonTime(sk_used, n), SkeletonTime(sk_fresh, n))
    /\ sk_lines' = sk_lines + 1
    /\ UNCHANGED <<sk_pc, sk_import>>

SK_ElementLine ==
    /\ sk_pc = "skeleton"
    /\ sk_lines < MaxSKLines
    /\ ForBoth(SkeletonElement(sk_used), SkeletonElement(sk_fresh))
    /\ sk_lines' = sk_lines + 1
    /\ UNCHANGED <<sk_pc, sk_import>>

SK_EndOfFile ==
    /\ sk_pc = "skeleton"
    /\ ForBoth(FinishImport(sk_used), FinishImport(sk_fresh))
    /\ sk_pc' = "done"
    /\ UNCHANGED <<sk_import, sk_lines>>

\* the used importer is given a second file
SK_NextImport ==
    /\ sk_pc = "done"
    /\ sk_import = 1
    /\ sk_import' = 2
    /\ sk_pc' = "start"
    /\ sk_lines' = 0
    /\ UNCHANGED <<sk_used, sk_fresh>>

SKNext ==
    \/ SK_ReadSmd
    \/ SK_TimeLine
    \/ SK_ElementLine
    \/ SK_EndOfFile
    \/ SK_NextImport

vars == <<stlVars, smdVars, acVars, lwsVars, lwpVars, acnVars, vaVars, smiVars, lwlVars, skVars>>

InitSTL ==
    STLInit /\ SMDIdle /\ ACIdle /\ LWSIdle /\ LWPIdle /\ ACNIdle /\ VAIdle /\ SMIIdle /\ LWLIdle /\ SKIdle
NextSTL ==
    STLNext /\ UNCHANGED <<smdVars, acVars, lwsVars, lwpVars, acnVars, vaVars, smiVars, lwlVars, skVars>>
SpecSTL == InitSTL /\ [][NextSTL]_vars

InitSMD ==
    SMDInit /\ STLIdle /\ ACIdle /\ LWSIdle /\ LWPIdle /\ ACNIdle /\ VAIdle /\ SMIIdle /\ LWLIdle /\ SKIdle
NextSMD ==
    SMDNext /\ UNCHANGED <<stlVars, acVars, lwsVars, lwpVars, acnVars, vaVars, smiVars, lwlVars, skVars>>
SpecSMD == InitSMD /\ [][NextSMD]_vars

InitAC ==
    ACInit /\ STLIdle /\ SMDIdle /\ LWSIdle /\ LWPIdle /\ ACNIdle /\ VAIdle /\ SMIIdle /\ LWLIdle /\ SKIdle
NextAC ==
    ACNext /\ UNCHANGED <<stlVars, smdVars, lwsVars, lwpVars, acnVars, vaVars, smiVars, lwlVars, skVars>>
SpecAC == InitAC /\ [][NextAC]_vars

InitLWS ==
    LWSInit /\ STLIdle /\ SMDIdle /\ ACIdle /\ LWPIdle /\ ACNIdle /\ VAIdle /\ SMIIdle /\ LWLIdle /\ SKIdle
NextLWS ==
    LWSNext /\ UNCHANGED <<stlVars, smdVars, acVars, lwpVars, acnVars, vaVars, smiVars, lwlVars, skVars>>
SpecLWS == InitLWS /\ [][NextLWS]_vars

InitLWP ==
    LWPInit /\ STLIdle /\ SMDIdle /\ ACIdle /\ LWSIdle /\ ACNIdle /\ VAIdle /\ SMIIdle /\ LWLIdle /\ SKIdle
NextLWP ==
    LWPNext /\ UNCHANGED <<stlVars, smdVars, acVars, lwsVars, acnVars, vaVars, smiVars, lwlVars, skVars>>
SpecLWP == InitLWP /\ [][NextLWP]_vars

InitACN ==
    ACNInit /\ STLIdle /\ SMDIdle /\ ACIdle /\ LWSIdle /\ LWPIdle /\ VAIdle /\ SMIIdle /\ LWLIdle /\ SKIdle
NextACN ==
    ACNNext /\ UNCHANGED <<stlVars, smdVars, acVars, lwsVars, lwpVars, vaVars, smiVars, lwlVars, skVars>>
SpecACN == InitACN /\ [][NextACN]_vars

InitVA ==
    VAInit /\ STLIdle /\ SMDIdle /\ ACIdle /\ LWSIdle /\ LWPIdle /\ ACNIdle /\ SMIIdle /\ LWLIdle /\ SKIdle
NextVA ==
    VANext /\ UNCHANGED <<stlVars, smdVars, acVars, lwsVars, lwpVars, acnVars, smiVars, lwlVars, skVars>>
SpecVA == InitVA /\ [][NextVA]_vars

InitSMI ==
    SMIInit /\ STLIdle /\ SMDIdle /\ ACIdle /\ LWSIdle /\ LWPIdle /\ ACNIdle /\ VAIdle /\ LWLIdle /\ SKIdle
NextSMI ==
    SMINext /\ UNCHANGED <<stlVars, smdVars, acVars, lwsVars, lwpVars, acnVars, vaVars, lwlVars, skVars>>
SpecSMI == InitSMI /\ [][NextSMI]_vars

InitLWL ==
    LWLInit /\ STLIdle /\ SMDIdle /\ ACIdle /\ LWSIdle /\ LWPIdle /\ ACNIdle /\ VAIdle /\ SMIIdle /\ SKIdle
NextLWL ==
    LWLNext /\ UNCHANGED <<stlVars, smdVars, acVars, lwsVars, lwpVars, acnVars, vaVars, smiVars, skVars>>
SpecLWL == InitLWL /\ [][NextLWL]_vars

InitSK ==
    SKInit /\ STLIdle /\ SMDIdle /\ ACIdle /\ LWSIdle /\ LWPIdle /\ ACNIdle /\ VAIdle /\ SMIIdle /\ LWLIdle
NextSK ==
    SKNext /\ UNCHANGED <<stlVars, smdVars, acVars, lwsVars, lwpVars, acnVars, vaVars, smiVars, lwlVars>>
SpecSK == InitSK /\ [][NextSK]_vars

SpecLWSFair == SpecLWS /\ WF_vars(NextLWS)

(***************************************************************************)
(*                               Properties                                *)
(***************************************************************************)

\* C1 (as claimed): when the AC3D import has returned, the number of mesh
\* slots counted for the node equals the number of meshes created for its
\* object, and every mesh index stored in the node is below the scene's mesh
\* count.
C1_NodeMeshIndicesInRange ==
    ac_pc = "done" =>
        /\ U32Val(ac_node.mNumMeshes) = Len(ac_node.mMeshes)
        /\ \A k \in 1 .. Len(ac_scene.nodeMeshes) : ac_scene.nodeMeshes[k] < ac_scene.mNumMeshes

\* the buffer holds exactly 84 + 50 * N bytes for its declared face count N >= 1
STLExactBuffer ==
    /\ ~U32IsZero(stl_buf.faceCount)
    /\ SizeAdd(SizeMul(stl_buf.faceCount, FacetSize), SizeOf(HeaderSize)) = stl_buf.size

\* C2 (as claimed): a buffer of exactly 84 + 50 * N bytes with declared face
\* count N >= 1 is never read as text and never rejected, and the import ends
\* with one mesh of N faces and 3N vertices, face i with the indices
\* 3i, 3i+1, 3i+2 and the facet's normal on each of its three vertices.
C2_ExactBufferReadAsBinary ==
    (stl_pc # "start" /\ STLExactBuffer) =>
        /\ stl_pc \notin {"ascii", "fatal"}
        /\ stl_pc = "done" =>
              /\ stl_scene.mNumMeshes = 1
              /\ stl_mesh.mNumFaces = stl_buf.faceCount
              /\ Len(stl_mesh.mFaces) = U32Val(stl_buf.faceCount)
              /\ Len(stl_mesh.mVertices) = 3 * U32Val(stl_buf.faceCount)
              /\ Len(stl_mesh.mNormals) = 3 * U32Val(stl_buf.faceCount)
              /\ \A i \in 1 .. Len(stl_mesh.mFaces) :
                    /\ stl_mesh.mFaces[i] = <<3 * (i - 1), 3 * (i - 1) + 1, 3 * (i - 1) + 2>>
                    /\ \A j \in 1 .. 3 : stl_mesh.mNormals[3 * (i - 1) + j] = stl_buf.normal[i - 1]

\* C3 (as claimed): a buffer is taken for the binary variant only if it has at
\* least 84 bytes and 84 + 50 * declared count equals its size as unbounded
\* integers.
C3_BinaryOnlyForExactSize ==
    stl_pc = "binary" =>
        /\ ~SizeLess(stl_buf.size, SizeOf(HeaderSize))
        /\ SizeAdd(SizeMul(stl_buf.faceCount, FacetSize), SizeOf(HeaderSize)) = stl_buf.size

\* the vertices the loop has handled
SMDHandled == 0 .. smd_iNum - 1

Distance(a, b) == IF a < b THEN b - a ELSE a - b

\* C4 (as claimed): every vertex with at least one declared bone link has
\* recorded weights that sum to 1.0 within 1e-3; every other vertex is in no
\* bone's list.
C4_WeightsSumToOne ==
    \A v \in SMDHandled :
        IF Len(smd_verts[v + 1].aiBoneLinks) > 0
        THEN Distance(RecordedWeight(v), Scale) <= Scale \div 1000
        ELSE InNoList(v)

\* C4 (amended): for every vertex whose parent bone index is a bone of the
\* file and whose accepted declared weights sum to at most 1.0, the recorded
\* weights sum to 1.0 within 0.025, and to exactly 1.0 when the declared sum
\* is below 0.975.
C4_WeightsNearOneForValidParent ==
    \A v \in SMDHandled :
        (ParentValid(v) /\ DeclaredSum(v) <= Scale) =>
            /\ Distance(RecordedWeight(v), Scale) <= Scale - WeightLimit
            /\ DeclaredSum(v) < WeightLimit => RecordedWeight(v) = Scale

\* C4 witness: a vertex with a valid parent and a declared sum below 0.975
\* has got the residual, and one with a sum between 0.975 and 1.0 has not
C4_Witness ==
    /\ \E v \in SMDHandled :
          /\ ParentValid(v) /\ DeclaredSum(v) > 0 /\ DeclaredSum(v) < WeightLimit
          /\ RecordedWeight(v) = Scale
    /\ \E v \in SMDHandled :
          /\ ParentValid(v) /\ DeclaredSum(v) >= WeightLimit /\ DeclaredSum(v) < Scale
          /\ RecordedWeight(v) = DeclaredSum(v)

\* C5 (as claimed): a vertex whose declared weights in range sum to s with
\* 0 < s < 0.975 and whose parent bone index is not a bone of the file ends
\* with recorded weights that total 1.0.
C5_InvalidParentRenormalized ==
    \A v \in SMDHandled :
        (~ParentValid(v) /\ DeclaredSum(v) > 0 /\ DeclaredSum(v) < WeightLimit) =>
            RecordedWeight(v) = Scale

(***************************************************************************)
(* LWS: the declared hierarchy, read off the declarations alone.           *)
(***************************************************************************)
DeclId(nodes, k) == nodes[k].type * TypeShift + nodes[k].number

DistinctIds(nodes) ==
    \A a, b \in 1 .. Len(nodes) : a # b => DeclId(nodes, a) # DeclId(nodes, b)

\* the node a declaration names as its parent, 0 if it names none
DeclParent(nodes, k) ==
    IF \E q \in 1 .. Len(nodes) : DeclId(nodes, q) = nodes[k].parent
    THEN CHOOSE q \in 1 .. Len(nodes) : DeclId(nodes, q) = nodes[k].parent
    ELSE 0

\* the ancestor of k that is n declared-parent steps up, 0 past the top
RECURSIVE DeclAncestor(_, _, _)
DeclAncestor(nodes, k, n) ==
    IF k = 0 \/ n = 0 THEN k ELSE DeclAncestor(nodes, DeclParent(nodes, k), n - 1)

DeclDescendant(nodes, d, r) ==
    d # r /\ \E n \in 1 .. Len(nodes) : DeclAncestor(nodes, d, n) = r

\* pairwise distinct identifiers, exactly one node without a parent, every
\* other parent an existing node, no cycle
WellFormed(nodes) ==
    /\ Len(nodes) > 0
    /\ DistinctIds(nodes)
    /\ Cardinality({k \in 1 .. Len(nodes) : nodes[k].parent = NoParent}) = 1
    /\ \A k \in 1 .. Len(nodes) : nodes[k].parent # NoParent => DeclParent(nodes, k) # 0
    /\ \A k \in 1 .. Len(nodes) : DeclAncestor(nodes, k, Len(nodes)) = 0

\* the aiNodes made for the description k
OutNodes(k) == {o \in 1 .. Len(lws_out) : lws_out[o].src = k /\ lws_out[o].kind = "node"}

\* the description an aiNode hangs below, 0 for <LWSRoot>
OutOwner(o) == IF lws_out[o].parent = 0 THEN 0 ELSE lws_out[lws_out[o].parent].src

\* C6: for a well-formed list (distinct identifiers, one node without parent,
\* every other parent an existing node, no cycle) the import succeeds and the
\* graph under <LWSRoot> holds every declared node exactly once, below the
\* node of its declared parent, whatever the order of the declarations.
C6_WellFormedListGivesTree ==
    (lws_pc \in {"done", "fatal"} /\ WellFormed(lws_nodes)) =>
        /\ lws_pc = "done"
        /\ \A k \in 1 .. Len(lws_nodes) :
              /\ Cardinality(OutNodes(k)) = 1
              /\ \A o \in OutNodes(k) : OutOwner(o) = DeclParent(lws_nodes, k)

\* C6 witness: a well-formed list of three nodes, a chain, with a child
\* declared before its parent, has been built
C6_Witness ==
    /\ lws_pc = "done"
    /\ WellFormed(lws_nodes)
    /\ Len(lws_nodes) = 3
    /\ DeclParent(lws_nodes, 1) = 2
    /\ DeclParent(lws_nodes, 2) = 3
    /\ \A k \in 1 .. 3 : Cardinality(OutNodes(k)) = 1

RootParentIsDescendant(nodes) ==
    \E r \in 1 .. Len(nodes) :
        LET fixed == [nodes EXCEPT ![r].parent = NoParent]
        IN  /\ nodes[r].parent # NoParent
            /\ WellFormed(fixed)
            /\ \E d \in 1 .. Len(nodes) :
                  /\ DeclId(nodes, d) = nodes[r].parent
                  /\ DeclDescendant(fixed, d, r)

\* C8 (as claimed): when the root's parent names one of its descendants the
\* import does not abort, the attachment is logged and dropped, and the
\* output tree is built.
C8_RootCycleIsDropped ==
    (lws_pc \in {"done", "fatal"} /\ RootParentIsDescendant(lws_nodes)) =>
        /\ lws_pc = "done"
        /\ lws_errors > 0
        /\ lws_out # <<>>

\* the node reached from k by n steps along parent_resolved, 0 past the top
RECURSIVE ResolvedAncestor(_, _)
ResolvedAncestor(k, n) ==
    IF k = 0 \/ n = 0 THEN k
    ELSE ResolvedAncestor(lws_nodes[k].parent_resolved, n - 1)

\* how often k stands in the children list of p
Occurrences(p, k) ==
    Cardinality({i \in 1 .. Len(lws_nodes[p].children) : lws_nodes[p].children[i] = k})

RECURSIVE TotalOccurrences(_, _)
TotalOccurrences(p, k) ==
    IF p = 0 THEN 0 ELSE Occurrences(p, k) + TotalOccurrences(p - 1, k)

\* C9 (as claimed): after parent resolution every node stands in at most one
\* children list, at most once, and no node is its own ancestor through
\* children links.
C9_ChildrenAreForest ==
    lws_pc \in {"loadall", "build", "done", "fatal"} =>
        \A k \in 1 .. Len(lws_nodes) :
            /\ TotalOccurrences(Len(lws_nodes), k) <= 1
            /\ \A n \in 1 .. Len(lws_nodes) : ResolvedAncestor(k, n) # k

\* C10: when parent resolution leaves no node without a resolved parent (also
\* when no node was declared), the import ends with the fatal error "Unable
\* to find scene root node", with no external file loaded and no output node
\* built.
C10_NoRootIsFatal ==
    (lws_pc \notin {"parse", "resolve"}
        /\ \A k \in 1 .. Len(lws_nodes) : lws_nodes[k].parent_resolved # 0) =>
            /\ lws_pc = "fatal"
            /\ lws_err = "LWS: Unable to find scene root node"
            /\ ~lws_loaded
            /\ lws_out = <<>>

\* C10 witness: the import was given up for a list of nodes that all have a
\* resolved parent
C10_Witness ==
    /\ lws_pc = "fatal"
    /\ Len(lws_nodes) >= 2
    /\ \A k \in 1 .. Len(lws_nodes) : lws_nodes[k].parent_resolved # 0

\* C11: the loop of LWS::Element::Parse only runs at a depth of at most
\* MAX_DEPTH, the depth of a call being the number of elements open at the
\* read position (0 for the root), and an input that opens more than
\* MAX_DEPTH nested elements ends in the recursion error.
C11_ParseDepthBounded ==
    /\ lwp_pc = "loop" => (lwp_depth = lwp_nesting /\ lwp_depth <= MAX_DEPTH)
    /\ lwp_nesting > MAX_DEPTH => lwp_pc = "error"
    /\ lwp_pc = "error" => lwp_nesting = MAX_DEPTH + 1

\* C11 witness: the input opened element number MAX_DEPTH + 1 inside the
\* others and the parse was given up
C11_Witness ==
    /\ lwp_pc = "error"
    /\ lwp_nesting = MAX_DEPTH + 1
    /\ lwp_depth = MAX_DEPTH

\* C12 (as claimed): LoadObjectSection and ConvertObjectSection never run
\* nested deeper than a fixed maximum, MAX_DEPTH.
C12_ObjectNestingBounded ==
    /\ acn_depth <= MAX_DEPTH
    /\ acn_cdepth <= MAX_DEPTH

\* the vertices the triangle list holds
VARetained ==
    {va_triangles[f].avVertices[k] : f \in 1 .. Len(va_triangles), k \in 0 .. 2} \ {NoVertex}

\* C13 (as claimed): when the file is read, the triangle list holds exactly
\* the vertices of the buffer that stand under the 'time' line of the
\* configured frame.
C13_OnlyConfiguredFrameRetained ==
    va_pc = "eof" => VARetained = {v \in va_seen : v.time = va_frame}

\* one triangle per complete group of three vertex lines, in file order
VACompleteTriangles(parsed) ==
    [g \in 1 .. (Len(parsed) \div 3) |->
        [avVertices |-> [k \in 0 .. 2 |-> parsed[3 * (g - 1) + k + 1]]]]

\* C24: on leaving the vertex animation section the triangle list holds one
\* triangle per complete group of three vertex lines read in the section,
\* the vertices of a group in file order; only a trailing incomplete triangle
\* is thrown away.
C24_CompleteTrianglesKept ==
    va_pc \in {"file", "eof"} => va_triangles = VACompleteTriangles(va_parsed)

\* ---------------------------------------------------------------------------
\* SMD InternReadFile
\* ---------------------------------------------------------------------------
SMIOnlyBones == smi_numTriangles = 0 /\ Len(smi_asBones) > 0
SMINoMeshData ==
    /\ smi_scene.mNumMeshes = 0
    /\ smi_scene.mNumMaterials = 0
    /\ smi_scene.rootMeshes = <<>>
SMINoListsError ==
    smi_err = "SMD: No triangles and no bones have been found in the file"

C15_NoZeroFaceMesh ==
    stl_pc \in {"materials", "done"} =>
        (stl_scene.mNumMeshes = 1 /\ ~U32IsZero(stl_mesh.mNumFaces))


\* C16: an AC3D surface whose material index is not below the number of
\* materials is handled as a surface of material 0: when the import is done
\* its faces and vertices are in the mesh made for material 0.
C16_OutOfRangeMaterialGoesToMeshZero ==
    ac_pc = "done" =>
        \A k \in 1 .. Len(ac_object.surfaces) :
            (ac_object.numVertices > 0 /\ NumRefs(ac_object.surfaces) > 0
                /\ ac_object.surfaces[k].mat >= ac_numMats) =>
              \E m \in 1 .. Len(ac_meshes) :
                  ac_meshes[m].mMaterialIndex = 0 /\ k \in ac_meshes[m].surfaces


\* C17: when a reader ends with a fatal error it has written nothing to the
\* destination scene: no root node, no mesh or material count, no flag.
\* Stated for the STL, AC3D and SMD readers.
C17_FatalLeavesSceneUntouched ==
    /\ stl_pc = "fatal" => stl_scene = EmptyScene
    /\ ac_pc = "fatal" => ac_scene = [mRootNode |-> FALSE, mNumMeshes |-> 0, nodeMeshes |-> <<>>]
    /\ smi_pc = "fatal" => smi_scene = NewScene


\* the positions of the node tree that hold bone i
SMINodesOfBone(i) == {k \in 1 .. Len(smi_scene.nodes) : smi_scene.nodes[k].bone = i}

\* C19: every bone the SMD file declares is in the node tree exactly once,
\* whatever parent index it declares, so that every animation channel names
\* a bone that has a node.
C19_EveryBoneHasOneNode ==
    smi_pc \in {"meshes", "anims", "skeleton", "done"} =>
        /\ \A i \in 0 .. Len(smi_asBones) - 1 : Cardinality(SMINodesOfBone(i)) = 1
        /\ \A c \in smi_scene.channels : SMINodesOfBone(c) # {}

\* ---------------------------------------------------------------------------
\* LWS InternReadFile: header and external objects
\* ---------------------------------------------------------------------------

\* C18: every import that returns without an error has set exactly one root
\* node in the scene, for each reader; an LWS file with the magic tag and no
\* version line does not return normally without a root.
C18_NormalReturnHasRoot ==
    /\ lwl_pc \in {"done", "returned"} => lwl_root
    /\ stl_pc = "done" => stl_scene.mRootNode
    /\ ac_pc = "done" => ac_scene.mRootNode
    /\ smi_pc = "done" => smi_scene.hasRoot

\* the LoadObject line read last named the scene file itself
LWLSelfReferenceRead == lwl_last = SelfPath
LWLSelfReferenceError ==
    lwl_err \in {"LWS: Invalid LoadObject: self reference.",
                 "LWS: Invalid LoadObjectLayer: self reference."}

\* every node of the file was built, and exactly the nodes whose file could
\* be loaded carry a sub-scene
LWLGraphBuilt ==
    /\ Len(lwl_out) = Len(lwl_nodes)
    /\ \A k \in 1 .. Len(lwl_nodes) :
          /\ lwl_out[k].src = k
          /\ lwl_out[k].obj <=> lwl_nodes[k].path \in LoadablePaths
          /\ Cardinality({a \in 1 .. Len(lwl_attach) : lwl_attach[a] = k})
               = (IF lwl_nodes[k].path \in LoadablePaths THEN 1 ELSE 0)

\* C20 as stated: a LoadObject or LoadObjectLayer line that names the scene
\* file itself, or a file that cannot be loaded, fails only that attachment:
\* the import goes on, the node stays without sub-scene and the others are
\* built.
C20_BadReferenceFailsOnlyAttachment ==
    /\ ~LWLSelfReferenceError
    /\ LWLSelfReferenceRead => lwl_pc \in {"elements", "build", "done"}
    /\ lwl_pc = "done" => (lwl_root /\ LWLGraphBuilt)

\* C20 amended: a line that names the scene file itself ends the whole import
\* with the fatal self-reference error and nothing is written to the scene;
\* a file that cannot be loaded fails only its attachment: the import ends
\* normally with every node built, that node without sub-scene, every node
\* whose file was loaded with its sub-scene attached once.
C20_SelfReferenceFatalUnloadableSkipped ==
    /\ LWLSelfReferenceRead <=> LWLSelfReferenceError
    /\ LWLSelfReferenceError => (lwl_pc = "fatal" /\ ~lwl_root /\ lwl_out = <<>>)
    /\ \A k \in 1 .. Len(lwl_nodes) : lwl_nodes[k].path # SelfPath
    /\ lwl_pc = "done" => (lwl_root /\ LWLGraphBuilt)

C20_Witness ==
    /\ lwl_pc = "done"
    /\ \E j, k \in 1 .. Len(lwl_nodes) :
          /\ lwl_nodes[j].path \in UnloadablePaths /\ ~lwl_out[j].obj
          /\ lwl_nodes[k].path \in LoadablePaths /\ lwl_out[k].obj


\* C21: external files are registered only while the primary file is read;
\* they are loaded by a single LoadAll that runs after the last element is
\* processed and before any node is built or any loaded scene is fetched.
C21_SingleLoadAllBetweenReadAndBuild ==
    /\ lwl_loadAlls <= 1
    /\ lwl_pc \in {"header", "elements", "loadall"} =>
          (lwl_loadAlls = 0 /\ lwl_out = <<>> /\ lwl_attach = <<>>)
    /\ lwl_pc \in {"build", "done"} => lwl_loadAlls = 1
    /\ (lwl_out # <<>> \/ lwl_attach # <<>>) => lwl_loadAlls = 1
    /\ lwl_loadAlls = 1 => Len(lwl_files) = Len(lwl_batch)

C21_Witness ==
    /\ lwl_pc = "done"
    /\ lwl_loadAlls = 1
    /\ Len(lwl_batch) = 2
    /\ lwl_attach # <<>>


\* C22: a file that two object nodes refer to is loaded once, and the merged
\* scene has a copy of the file's node subtree below each of the two
\* attachment nodes: the subtree a single reference to the file gives.
C22_SharedFileLoadedOnceAttachedTwice ==
    lwl_pc = "done" =>
        /\ \A i, j \in 1 .. Len(lwl_batch) : lwl_batch[i] = lwl_batch[j] => i = j
        /\ Len(lwl_merged) = Len(lwl_attach)
        /\ \A a \in 1 .. Len(lwl_attach) :
              lwl_merged[a] = RemovePivot(lwl_files[lwl_nodes[lwl_attach[a]].id])


\* C23: an AC3D file with more than one top-level object is imported: a root
\* is generated and the import ends without error, the objects below it.
C23_SeveralTopLevelObjectsImported ==
    /\ (acn_pc = "convert" /\ acn_roots >= 2) => acn_nest >= 2
    /\ (acn_pc \in {"done", "fatal"} /\ acn_roots >= 2) => acn_pc = "done"


\* ---------------------------------------------------------------------------
\* SMD time values
\* ---------------------------------------------------------------------------
SKKeys == sk_used.scene.keys

\* C25: after FixTimeValues every key time is at least 0, the smallest key
\* time is 0 when there is a key, and the length of the animation is the
\* largest key time.
C25_AnimationStartsAtFrameZero ==
    (sk_pc = "done" /\ sk_used.scene.status = "ok" /\ sk_used.bones) =>
        /\ \A k \in 1 .. Len(SKKeys) : SKKeys[k] >= 0
        /\ SKKeys # <<>> => \E k \in 1 .. Len(SKKeys) : SKKeys[k] = 0
        /\ \A k \in 1 .. Len(SKKeys) : SKKeys[k] <= sk_used.scene.mDuration
        /\ SKKeys # <<>> => \E k \in 1 .. Len(SKKeys) : SKKeys[k] = sk_used.scene.mDuration

\* C30: the scene an importer object makes of a file is the scene a newly
\* constructed importer makes of it, whatever the object imported before.
C30_ImportIndependentOfEarlierImports ==
    (sk_pc = "done" /\ sk_import = 2) => sk_used.scene = sk_fresh.scene


\* C29: on every successful LWS import the light array of the master scene
\* is filled exactly: BuildGraph writes as many lights as the file has
\* AddLight entries, whatever parents the nodes declare.
C29_LightArrayFilled ==
    lws_pc = "done" =>
        Cardinality({k \in 1 .. Len(lws_out) :
                        lws_out[k].kind = "node" /\ lws_nodes[lws_out[k].src].type = LIGHT})
          = Cardinality({n \in 1 .. Len(lws_nodes) : lws_nodes[n].type = LIGHT})


(***************************************************************************)
(* Properties of the AC3D output pass                                      *)
(***************************************************************************)
\* C26: for each mesh of an imported object, the numbers of faces and of
\* vertices written by the output pass equal mNumFaces and mNumVertices from
\* the counting pass, so that every face slot is filled, whatever the surface
\* types, double-sided flags, material indices and reference counts are.
C26_OutputPassFillsCountedSlots ==
    ac_pc = "done" =>
        \A m \in 1 .. Len(ac_meshes) :
            /\ U32(ac_meshes[m].facesWritten) = ac_meshes[m].mNumFaces
            /\ U32(ac_meshes[m].verticesWritten) = ac_meshes[m].mNumVertices


(***************************************************************************)
(* Properties of the binary STL loader                                     *)
(***************************************************************************)
\* the bytes the header and n facet records take, without wrap-around
FacetBytes(n) == SizeAdd(SizeOf(HeaderSize), SizeMul(n, FacetSize))

\* C27: whenever the facet loop of LoadBinaryFile is entered, and whenever
\* the vertex and normal arrays of the binary mesh exist, 84 + 50 * mNumFaces
\* is at most the file size in unbounded arithmetic; a binary file whose
\* declared face count needs more bytes ends in a fatal error with no arrays
\* allocated.
C27_FacetRecordsInsideFile ==
    /\ stl_pc = "facets" => ~SizeLess(stl_buf.size, FacetBytes(stl_mesh.mNumFaces))
    /\ (stl_scene.rootName = "<STL_BINARY>" /\ stl_mesh.allocated) =>
           ~SizeLess(stl_buf.size, FacetBytes(stl_mesh.mNumFaces))
    /\ (stl_scene.rootName = "<STL_BINARY>"
            /\ SizeLess(stl_buf.size, FacetBytes(stl_buf.faceCount))) =>
           (stl_pc = "fatal" /\ ~stl_mesh.allocated /\ stl_i = 0)

\* a binary file of two facets is in the facet loop with one facet read
C27_Witness ==
    stl_pc = "facets" /\ stl_i = 1 /\ stl_mesh.mNumFaces = U32(2) /\ stl_mesh.allocated


(***************************************************************************)
(* Properties of the text STL loader                                       *)
(***************************************************************************)
\* C28: in every solid that LoadASCIIFile accepts, each face is made of the
\* three vertices declared inside one facet block, in their order, and its
\* three normals are those of the facet line of that block; no vertex gets
\* the normal of another facet.
C28_FaceKeepsItsFacetNormal ==
    (stl_pc \in {"materials", "done"} /\ stl_scene.rootName # "<STL_BINARY>") =>
        \A f \in 1 .. U32Val(stl_mesh.mNumFaces) :
            \A c \in 1 .. 3 :
                /\ stl_mesh.mVertices[3 * (f - 1) + c] =
                       <<stl_mesh.mVertices[3 * (f - 1) + 1][1], c>>
                /\ stl_mesh.mNormals[3 * (f - 1) + c] = stl_mesh.mVertices[3 * (f - 1) + c][1]

=============================================================================
